---- MODULE Spec2Model ----
(***************************************************************************)
(* Entity Resolution Registry of hyperflow (src/scripts/entity_registry.py) *)
(*                                                                         *)
(* A Python str is a sequence of one-character strings, so that lower(),   *)
(* split(), join() and the substring test are computed character by        *)
(* character.  A confidence is a float of the code times Scale.            *)
(***************************************************************************)
EXTENDS Integers, Sequences, FiniteSets, TLC

(***************************************************************************)
(* str primitives                                                          *)
(***************************************************************************)
LowerMap ==
  ("A" :> "a") @@ ("B" :> "b") @@ ("C" :> "c") @@ ("D" :> "d") @@ ("E" :> "e") @@
  ("F" :> "f") @@ ("G" :> "g") @@ ("H" :> "h") @@ ("I" :> "i") @@ ("J" :> "j") @@
  ("K" :> "k") @@ ("L" :> "l") @@ ("M" :> "m") @@ ("N" :> "n") @@ ("O" :> "o") @@
  ("P" :> "p") @@ ("Q" :> "q") @@ ("R" :> "r") @@ ("S" :> "s") @@ ("T" :> "t") @@
  ("U" :> "u") @@ ("V" :> "v") @@ ("W" :> "w") @@ ("X" :> "x") @@ ("Y" :> "y") @@
  ("Z" :> "z")

\* str.lower()
Lower(s) == [i \in 1..Len(s) |-> IF s[i] \in DOMAIN LowerMap THEN LowerMap[s[i]] ELSE s[i]]

\* the whitespace str.split() and str.strip() cut at
IsSpace(c) == c \in {" ", "\t"}

\* str.split(): the maximal runs of non-whitespace characters, in order
RECURSIVE SplitFrom(_, _, _)
SplitFrom(s, i, cur) ==
  IF i > Len(s) THEN (IF cur = <<>> THEN <<>> ELSE <<cur>>)
  ELSE IF IsSpace(s[i])
       THEN (IF cur = <<>> THEN <<>> ELSE <<cur>>) \o SplitFrom(s, i + 1, <<>>)
       ELSE SplitFrom(s, i + 1, Append(cur, s[i]))

Split(s) == SplitFrom(s, 1, <<>>)

\* ' '.join(words)
RECURSIVE Join(_)
Join(words) ==
  IF words = <<>> THEN <<>>
  ELSE IF Len(words) = 1 THEN words[1]
  ELSE words[1] \o <<" ">> \o Join(Tail(words))

\* a in b, for str
IsSubstring(a, b) ==
  \E i \in 0..(Len(b) - Len(a)) : SubSeq(b, i + 1, i + Len(a)) = a

(***************************************************************************)
(* Names of the model: file stems, aliases and mentions                    *)
(***************************************************************************)
wLisa == <<"L","i","s","a">>
wChang == <<"C","h","a","n","g">>
wDavid == <<"D","a","v","i","d">>
wSarah == <<"S","a","r","a","h">>
wChen == <<"C","h","e","n">>
wMarie == <<"M","a","r","i","e">>
wSally == <<"S","a","l","l","y">>
wsally == <<"s","a","l","l","y">>
wAcme == <<"A","c","m","e">>
wLabs == <<"L","a","b","s">>
wGraph == <<"G","r","a","p","h">>
wDr == <<"D","r",".">>
wPhD == <<"P","h","D">>
wJr == <<"J","r",".">>
wZed == <<"Z","e","d">>
wGretchen == <<"G","r","e","t","c","h","e","n">>
wMarks == <<"M","a","r","k","s">>

Sp(a, b) == a \o <<" ">> \o b

LisaChang == Sp(wLisa, wChang)
DavidChang == Sp(wDavid, wChang)
SarahChen == Sp(wSarah, wChen)
SarahChenJr == Sp(SarahChen, wJr)
LisaMarieChang == Sp(wLisa, Sp(wMarie, wChang))
AcmeLabs == Sp(wAcme, wLabs)
GretchenMarks == Sp(wGretchen, wMarks)

\* the file stems of the vaults
Stems == {LisaChang, DavidChang, SarahChen, SarahChenJr, GretchenMarks, AcmeLabs, wGraph}

\* the arguments the calls are made with
NameArgs == {LisaChang, LisaMarieChang, wLisa, wZed}
AliasArgs == {wSally, wsally}

\* the names the lookups are made with: stems, mentions of them, names
\* that share a word with a stem, names of no record, the empty string and
\* names made only of titles and suffixes
QueryNames ==
  NameArgs \cup Stems \cup AliasArgs
    \cup {<<>>, wDr, Sp(wDr, wJr), wChang, wChen, SarahChen, DavidChang, wGretchen,
          Sp(wDr, Sp(LisaChang, wPhD))}

\* the strings the model computes with and the keys derived from them, for
\* the memo tables below
Strings == Stems \cup NameArgs \cup AliasArgs \cup {wLisa, wSarah, wAcme, wChang, wChen, SarahChen} \cup QueryNames

(***************************************************************************)
(* NameNormalizer                                                          *)
(***************************************************************************)
TITLES ==
  { <<"d","r">>, <<"d","r",".">>, <<"m","r">>, <<"m","r",".">>,
    <<"m","r","s">>, <<"m","r","s",".">>, <<"m","s">>, <<"m","s",".">>,
    <<"p","r","o","f">>, <<"p","r","o","f",".">>,
    <<"p","r","o","f","e","s","s","o","r">>, <<"s","i","r">>,
    <<"d","a","m","e">>, <<"r","e","v">>, <<"r","e","v",".">> }

SUFFIXES ==
  { <<"j","r">>, <<"j","r",".">>, <<"s","r">>, <<"s","r",".">>,
    <<"i","i">>, <<"i","i","i">>, <<"i","v">>, <<"v">>,
    <<"p","h","d">>, <<"p","h",".","d">>, <<"p","h",".","d",".">>,
    <<"m","d">>, <<"m",".","d">>, <<"m",".","d",".">>,
    <<"e","s","q">>, <<"e","s","q",".">> }

\* if words and words[0] in cls.TITLES: words.pop(0), once and no more
StripTitles_once(words) ==
  IF words # <<>> /\ words[1] \in TITLES THEN Tail(words) ELSE words

\* while words and words[0] in cls.TITLES: words.pop(0)
RECURSIVE StripTitles(_)
StripTitles(words) ==
  IF words # <<>> /\ words[1] \in TITLES THEN StripTitles(Tail(words)) ELSE words

\* while words and words[-1] in cls.SUFFIXES: words.pop()
RECURSIVE StripSuffixes(_)
StripSuffixes(words) ==
  IF words # <<>> /\ words[Len(words)] \in SUFFIXES
  THEN StripSuffixes(SubSeq(words, 1, Len(words) - 1))
  ELSE words

normalize(name) ==
  IF name = <<>> THEN <<>>
  ELSE Join(StripSuffixes(StripTitles(Split(Lower(name)))))

\* the keys the model's strings give rise to
LastWord(s) == Split(s)[Len(Split(s))]
Derived(S) ==
  S \cup {Lower(x) : x \in S}
    \cup UNION { {n, LastWord(n), Split(n)[1] \o <<" ">> \o LastWord(n)} :
                 n \in {normalize(x) : x \in S} \ {<<>>} }
Memo == Derived(Strings)

\* table[key] where the table has the key, and value where it has not
Lookup(table, key, value) == IF key \in DOMAIN table THEN table[key] ELSE value

\* normalize(x), looked up for the strings of Memo and computed for the rest;
\* VariantsM and SimilarityM likewise
NormalizeMemo == [x \in Memo |-> normalize(x)]
NormalizeM(name) == Lookup(NormalizeMemo, name, normalize(name))

\* extract_variants without the surname-only variant
extract_variants_no_surname(name) ==
  LET From(normalized) ==
        LET words == Split(normalized)
            v1 == <<name>>
            v2 == IF normalized # Lower(name) THEN Append(v1, normalized) ELSE v1
            v3 == IF Len(words) >= 2
                  THEN v2 \o << words[1] \o <<" ">> \o words[Len(words)] >>
                  ELSE v2
            kept == SelectSeq(v3, LAMBDA v : v # <<>>)
        IN  [i \in 1..Len(kept) |-> Lower(kept[i])]
  IN  From(normalize(name))

\* the list extract_variants returns, in its order
extract_variants(name) ==
  LET From(normalized) ==
        LET words == Split(normalized)
            v1 == <<name>>
            v2 == IF normalized # Lower(name) THEN Append(v1, normalized) ELSE v1
            v3 == IF Len(words) >= 2
                  THEN v2 \o << words[1] \o <<" ">> \o words[Len(words)], words[Len(words)] >>
                  ELSE v2
            kept == SelectSeq(v3, LAMBDA v : v # <<>>)
        IN  [i \in 1..Len(kept) |-> Lower(kept[i])]
  IN  From(normalize(name))

VariantsMemo == [x \in Memo |-> extract_variants(x)]
VariantsM(name) == Lookup(VariantsMemo, name, extract_variants(name))

\* a confidence c of the code is the integer c * Scale
Scale == 840
CONF_EXACT == Scale
CONF_VARIANT == (9 * Scale) \div 10
CONF_SUBSTRING == (8 * Scale) \div 10
DEFAULT_MIN_CONFIDENCE == (7 * Scale) \div 10

WordSet(s) == { Split(s)[i] : i \in 1..Len(Split(s)) }

similarity(name1, name2) ==
  LET Of(n1, n2) ==
        LET words1 == WordSet(n1)
            words2 == WordSet(n2)
            overlap == Cardinality(words1 \cap words2)
            total == Cardinality(words1 \cup words2)
        IN  IF n1 = n2 THEN CONF_EXACT
            ELSE IF IsSubstring(n1, n2) \/ IsSubstring(n2, n1) THEN CONF_SUBSTRING
            ELSE IF words1 = {} \/ words2 = {} THEN 0
            ELSE IF total > 0 THEN (overlap * Scale) \div total ELSE 0
  IN  Of(normalize(name1), normalize(name2))

SimilarityMemo == [p \in Memo \X Memo |-> similarity(p[1], p[2])]
SimilarityM(name1, name2) ==
  Lookup(SimilarityMemo, <<name1, name2>>, similarity(name1, name2))

(***************************************************************************)
(* The backing store: vault roots, the three type directories, and the     *)
(* '*.md' files in them.  A file's content is kept as what read_text,      *)
(* split('---', 2) and yaml.safe_load make of it.                          *)
(***************************************************************************)
Roots == {"vaultA", "vaultB"}
Dirs == <<"people", "organizations", "concepts">>
DirSet == {Dirs[i] : i \in 1..3}
TypeOfDir == [d \in DirSet |-> CASE d = "people" -> "person"
                                 [] d = "organizations" -> "organization"
                                 [] d = "concepts" -> "concept"]

\* a YAML value of the 'aliases' field, and the value of EntityMatch.aliases
YMissing == [t |-> "missing", v |-> <<>>]
YNull == [t |-> "null", v |-> <<>>]
YStr(s) == [t |-> "str", v |-> <<s>>]
YList(l) == [t |-> "list", v |-> l]
\* a list item that is not a str (the YAML integer 42); no str has a
\* two-character element, so it equals no str
IntItem == <<"42">>
IsStr(item) == item # IntItem

\* kinds of content:
\*   unreadable  read_text raises
\*   nofm        does not start with '---', or has no closing '---'
\*   badyaml     yaml.safe_load raises YAMLError
\*   empty       the block loads as None (or another falsy value)
\*   notmap      the block loads as a truthy value that is not a mapping
\*   map         the block loads as a mapping; aliases is its 'aliases' field
\* title is the block's field 'title', a field the registry does not use, and
\* body is parts[2], the text after the block's closing '---'
wNote == <<"N","o","t","e">>
Body == <<"\n","T","e","x","t",".","\n">>
Absent ==
  [kind |-> "absent", aliases |-> YMissing, title |-> YMissing, body |-> <<>>, writable |-> TRUE]
File(kind, aliases, title, body, writable) ==
  [kind |-> kind, aliases |-> aliases, title |-> title, body |-> body, writable |-> writable]
Plain(aliases) == File("map", aliases, YStr(wNote), Body, TRUE)

Path(root, dir, stem) == [root |-> root, dir |-> dir, stem |-> stem]

(***************************************************************************)
(* EntityMatch and the indexes.  A dict is the sequence of its items in    *)
(* insertion order.  oid is the identity of the EntityMatch object: two    *)
(* keys that hold the same object hold the same oid, and an assignment to  *)
(* a field of the object shows under both.  A copy not yet stored has      *)
(* oid 0.                                                                  *)
(***************************************************************************)
EntityMatch(oid, name, filepath, entity_type, aliases, confidence) ==
  [oid |-> oid, name |-> name, filepath |-> filepath, entity_type |-> entity_type,
   aliases |-> aliases, confidence |-> confidence]

None == [found |-> FALSE]
Some(e) == [found |-> TRUE, ent |-> e]

HasKey(index, k) == \E i \in 1..Len(index) : index[i].key = k
Get(index, k) == index[CHOOSE i \in 1..Len(index) : index[i].key = k].ent
\* index[k] = e
Put(index, k, e) ==
  IF HasKey(index, k)
  THEN [i \in 1..Len(index) |-> IF index[i].key = k THEN [key |-> k, ent |-> e] ELSE index[i]]
  ELSE Append(index, [key |-> k, ent |-> e])
\* if k not in index: index[k] = e
PutIfAbsent(index, k, e) == IF HasKey(index, k) THEN index ELSE Put(index, k, e)

RECURSIVE PutAllIfAbsent(_, _, _)
PutAllIfAbsent(index, ks, e) ==
  IF ks = <<>> THEN index
  ELSE PutAllIfAbsent(PutIfAbsent(index, Head(ks), e), Tail(ks), e)

Keys(index) == {index[i].key : i \in 1..Len(index)}
Values(index) == {index[i].ent : i \in 1..Len(index)}

\* EntityRegistry.__init__
NewRegistry(rid, vault_path) ==
  [rid |-> rid, vault_path |-> vault_path,
   people |-> <<>>, organizations |-> <<>>, concepts |-> <<>>,
   filepath_to_name |-> {}]

IndexNames == {"people", "organizations", "concepts"}
IndexOf(reg, which) ==
  CASE which = "people" -> reg.people
    [] which = "organizations" -> reg.organizations
    [] which = "concepts" -> reg.concepts
WithIndex(reg, which, index) ==
  CASE which = "people" -> [reg EXCEPT !.people = index]
    [] which = "organizations" -> [reg EXCEPT !.organizations = index]
    [] which = "concepts" -> [reg EXCEPT !.concepts = index]

_get_index_for_type(entity_type) ==
  IF entity_type = "person" THEN "people"
  ELSE IF entity_type = "organization" THEN "organizations"
  ELSE "concepts"

AllEntities(reg) == Values(reg.people) \cup Values(reg.organizations) \cup Values(reg.concepts)
\* the identity of a newly created EntityMatch: one no stored object has
NewOid(reg) ==
  LET Oids(index) == {index[i].ent.oid : i \in 1..Len(index)}
      used == Oids(reg.people) \cup Oids(reg.organizations) \cup Oids(reg.concepts)
  IN  CHOOSE n \in 1..(Cardinality(used) + 1) : n \notin used

\* index[k] = e for every k of ks
RECURSIVE PutAll(_, _, _)
PutAll(index, ks, e) ==
  IF ks = <<>> THEN index ELSE PutAll(Put(index, Head(ks), e), Tail(ks), e)

\* the loop over entity.aliases with every key written whether it is held or
\* not
RECURSIVE IndexAliases_last_wins(_, _, _, _)
IndexAliases_last_wins(index, entity, items, i) ==
  IF i > Len(items) THEN [index |-> index, raised |-> FALSE]
  ELSE IF ~IsStr(items[i]) THEN [index |-> index, raised |-> TRUE]
  ELSE IndexAliases_last_wins(
         PutAll(Put(index, NormalizeM(items[i]), entity), VariantsM(items[i]), entity),
         entity, items, i + 1)

\* the loop over entity.aliases of _index_entity, from item i on; iterating
\* None raises TypeError and normalize of an item that is not a str raises
\* AttributeError, after the items before it were indexed
RECURSIVE IndexAliases(_, _, _, _)
IndexAliases(index, entity, items, i) ==
  IF i > Len(items) THEN [index |-> index, raised |-> FALSE]
  ELSE IF ~IsStr(items[i]) THEN [index |-> index, raised |-> TRUE]
  ELSE LET a1 == PutIfAbsent(index, NormalizeM(items[i]), entity)
           a2 == PutAllIfAbsent(a1, VariantsM(items[i]), entity)
       IN  IndexAliases(a2, entity, items, i + 1)

\* the canonical-name part with every variant written whether the key is
\* held or not
IndexCanonical_last_wins(index, entity) ==
  PutAll(Put(index, NormalizeM(entity.name), entity), VariantsM(entity.name), entity)

\* the canonical-name part with the canonical key inserted only if absent
IndexCanonical_keep_first(index, entity) ==
  PutAllIfAbsent(PutIfAbsent(index, NormalizeM(entity.name), entity),
                 VariantsM(entity.name), entity)

\* the canonical-name part of _index_entity
IndexCanonical(index, entity) ==
  PutAllIfAbsent(Put(index, NormalizeM(entity.name), entity),
                 VariantsM(entity.name), entity)

_index_entity(reg, entity, which) ==
  LET WithAliases(i1) ==
        IF entity.aliases.t = "null"
        THEN [index |-> i1, raised |-> TRUE]
        ELSE IndexAliases(i1, entity, entity.aliases.v, 1)
      rev == {p \in reg.filepath_to_name : p.filepath # entity.filepath}
               \cup {[filepath |-> entity.filepath, name |-> entity.name]}
      Reverse(r2) ==
        IF r2.raised THEN [reg |-> WithIndex(reg, which, r2.index), raised |-> TRUE]
        ELSE [reg |-> [WithIndex(reg, which, r2.index) EXCEPT !.filepath_to_name = rev],
              raised |-> FALSE]
  IN  Reverse(WithAliases(IndexCanonical(IndexOf(reg, which), entity)))

\* the aliases _load_entity and add_alias read out of a record's content:
\* frontmatter.get('aliases', []), a single str made a list
AliasesRead(content) ==
  IF content.kind = "map"
  THEN (IF content.aliases.t = "missing" THEN YList(<<>>)
        ELSE IF content.aliases.t = "str" THEN YList(content.aliases.v)
        ELSE content.aliases)
  ELSE YList(<<>>)

\* does reading the record and parsing its block raise out of the inner try
\* (read error, or .get on a value that is not a mapping)
LoadRaises(content) == content.kind \in {"unreadable", "notmap"}

_load_entity(oid, filepath, entity_type, content) ==
  IF LoadRaises(content) THEN None
  ELSE Some(EntityMatch(oid, filepath.stem, filepath, entity_type,
                        AliasesRead(content), CONF_EXACT))

(***************************************************************************)
(* EntityRegistry.find                                                     *)
(***************************************************************************)
Copy(e, confidence) ==
  EntityMatch(0, e.name, e.filepath, e.entity_type, e.aliases, confidence)

\* the first variant of name that is a key, or 0
FirstVariantIn(index, variants) ==
  IF \E i \in 1..Len(variants) : HasKey(index, variants[i])
  THEN CHOOSE i \in 1..Len(variants) :
         /\ HasKey(index, variants[i])
         /\ \A j \in 1..(i - 1) : ~HasKey(index, variants[j])
  ELSE 0

\* the fuzzy loop with 'score >= best_score': the last of equal scores wins
RECURSIVE FuzzyFrom_last_tie(_, _, _, _, _)
FuzzyFrom_last_tie(name, index, i, best_score, best_match) ==
  LET Scored(score) ==
        IF score >= best_score
        THEN FuzzyFrom_last_tie(name, index, i + 1, score, Some(Copy(index[i].ent, score)))
        ELSE FuzzyFrom_last_tie(name, index, i + 1, best_score, best_match)
  IN  IF i > Len(index) THEN best_match
      ELSE Scored(SimilarityM(name, index[i].key))

\* the fuzzy loop over index.items() from item i on
RECURSIVE FuzzyFrom(_, _, _, _, _)
FuzzyFrom(name, index, i, best_score, best_match) ==
  LET Scored(score) ==
        IF score > best_score
        THEN FuzzyFrom(name, index, i + 1, score, Some(Copy(index[i].ent, score)))
        ELSE FuzzyFrom(name, index, i + 1, best_score, best_match)
  IN  IF i > Len(index) THEN best_match
      ELSE Scored(SimilarityM(name, index[i].key))

\* _find_in_index without 'if not name: return None'
_find_in_index_unguarded(name, index, min_confidence) ==
  LET Keyed(normalized, variants) ==
        LET vi == FirstVariantIn(index, variants)
        IN  IF HasKey(index, normalized) THEN Some(Get(index, normalized))
            ELSE IF vi # 0 THEN Some(Copy(Get(index, variants[vi]), CONF_VARIANT))
            ELSE IF min_confidence < CONF_EXACT
                 THEN FuzzyFrom(name, index, 1, min_confidence, None)
            ELSE None
  IN  Keyed(NormalizeM(name), VariantsM(name))

_find_in_index(name, index, min_confidence) ==
  LET Keyed(normalized, variants) ==
        LET vi == FirstVariantIn(index, variants)
        IN  IF name = <<>> THEN None
            ELSE IF HasKey(index, normalized) THEN Some(Get(index, normalized))
            ELSE IF vi # 0 THEN Some(Copy(Get(index, variants[vi]), CONF_VARIANT))
            ELSE IF min_confidence < CONF_EXACT
                 THEN FuzzyFrom(name, index, 1, min_confidence, None)
            ELSE None
  IN  Keyed(NormalizeM(name), VariantsM(name))

find_person(reg, name, min_confidence) == _find_in_index(name, reg.people, min_confidence)
find_organization(reg, name, min_confidence) ==
  _find_in_index(name, reg.organizations, min_confidence)
find_concept(reg, name, min_confidence) == _find_in_index(name, reg.concepts, min_confidence)

\* entity_type is "person", "organization", "concept", or "none" for None
\* and for any other string
EntityTypes == {"person", "organization", "concept"}
\* find that hands the default threshold to the finders, not min_confidence
find_default_threshold(reg, name, entity_type, min_confidence) ==
  LET Among(person, organization, concept) ==
        IF entity_type = "person" THEN person
        ELSE IF entity_type = "organization" THEN organization
        ELSE IF entity_type = "concept" THEN concept
        ELSE IF person.found THEN person
        ELSE IF organization.found THEN organization
        ELSE concept
  IN  Among(find_person(reg, name, DEFAULT_MIN_CONFIDENCE),
            find_organization(reg, name, DEFAULT_MIN_CONFIDENCE),
            find_concept(reg, name, DEFAULT_MIN_CONFIDENCE))

find(reg, name, entity_type, min_confidence) ==
  LET Among(person, organization, concept) ==
        IF entity_type = "person" THEN person
        ELSE IF entity_type = "organization" THEN organization
        ELSE IF entity_type = "concept" THEN concept
        ELSE IF person.found THEN person
        ELSE IF organization.found THEN organization
        ELSE concept
  IN  Among(find_person(reg, name, min_confidence),
            find_organization(reg, name, min_confidence),
            find_concept(reg, name, min_confidence))

Find(reg, name, entity_type) == find(reg, name, entity_type, DEFAULT_MIN_CONFIDENCE)

(***************************************************************************)
(* EntityRegistry.get_link and exists.  A Path is kept by its parts; its   *)
(* str is root + '/' + directory + '/' + stem + '.md', and relative_to and *)
(* with_suffix work on that str.                                           *)
(***************************************************************************)
RootStr ==
  [r \in Roots |-> IF r = "vaultA" THEN <<"/","v","a">> ELSE <<"/","v","b">>]
DirStr ==
  [d \in DirSet |->
     CASE d = "people" -> <<"p","e","o","p","l","e">>
       [] d = "organizations" -> <<"o","r","g","a","n","i","z","a","t","i","o","n","s">>
       [] d = "concepts" -> <<"c","o","n","c","e","p","t","s">>]
Slash == <<"/">>
DotMd == <<".","m","d">>

\* str(filepath)
PathStr(filepath) ==
  RootStr[filepath.root] \o Slash \o DirStr[filepath.dir] \o Slash \o filepath.stem \o DotMd

IsPrefix(a, b) == Len(a) <= Len(b) /\ SubSeq(b, 1, Len(a)) = a

\* path.relative_to(base): the part of path below base; ValueError when path
\* is not below base
relative_to(path, base) ==
  IF IsPrefix(base \o Slash, path)
  THEN [raised |-> FALSE, v |-> SubSeq(path, Len(base) + 2, Len(path))]
  ELSE [raised |-> TRUE, v |-> <<>>]

\* the positions of character c in s
Positions(s, c) == {i \in 1..Len(s) : s[i] = c}
Last(S) == CHOOSE i \in S : \A j \in S : j <= i

\* with_suffix('') that cuts at the first dot of the final component
with_suffix_empty_first_dot(path) ==
  LET start == IF Positions(path, "/") = {} THEN 1 ELSE Last(Positions(path, "/")) + 1
      dots == {i \in Positions(path, ".") : i >= start}
  IN  IF dots = {} THEN path
      ELSE SubSeq(path, 1, (CHOOSE i \in dots : \A j \in dots : i <= j) - 1)

\* path.with_suffix(''): the final component loses its suffix, which runs
\* from its last dot when that dot is neither its first nor its last character
with_suffix_empty(path) ==
  LET start == IF Positions(path, "/") = {} THEN 1 ELSE Last(Positions(path, "/")) + 1
      dots == {i \in Positions(path, ".") : i >= start}
  IN  IF dots = {} \/ Last(dots) = start \/ Last(dots) = Len(path) THEN path
      ELSE SubSeq(path, 1, Last(dots) - 1)

\* what get_link makes of the match find returned: None, or the link text;
\* raised when relative_to raises
link_of(reg, match) ==
  LET Rel(rel_path) ==
        IF rel_path.raised THEN [found |-> FALSE, raised |-> TRUE]
        ELSE [found |-> TRUE, raised |-> FALSE,
              link |-> <<"[","[">> \o with_suffix_empty(rel_path.v) \o <<"]","]">>]
  IN  IF match.found
      THEN Rel(relative_to(PathStr(match.ent.filepath), RootStr[reg.vault_path]))
      ELSE [found |-> FALSE, raised |-> FALSE]

get_link(reg, name, entity_type) ==
  link_of(reg, find(reg, name, entity_type, DEFAULT_MIN_CONFIDENCE))

\* get_all_people, get_all_organizations, get_all_concepts: the names of the
\* index's values, each once (the order of the list is that of a set)
get_all(reg, which) == {e.name : e \in Values(IndexOf(reg, which))}

\* the data to_json hands to json.dumps: for each index, in its order, the
\* key with the name, str(filepath) and aliases of its record
to_json(reg) ==
  LET Items(index) ==
        [i \in 1..Len(index) |->
           [key |-> index[i].key, name |-> index[i].ent.name,
            path |-> PathStr(index[i].ent.filepath), aliases |-> index[i].ent.aliases]]
  IN  [people |-> Items(reg.people), organizations |-> Items(reg.organizations),
       concepts |-> Items(reg.concepts)]

exists(reg, name, entity_type) == find(reg, name, entity_type, DEFAULT_MIN_CONFIDENCE).found

(***************************************************************************)
(* EntityRegistry.scan                                                     *)
(***************************************************************************)
\* the stem of people/.Lisa Chang.md, a file whose name starts with '.'
DotLisaChang == <<".">> \o LisaChang

FileIds ==
  { [dir |-> "people", stem |-> LisaChang], [dir |-> "people", stem |-> DotLisaChang], [dir |-> "people", stem |-> DavidChang],
    [dir |-> "people", stem |-> SarahChenJr], [dir |-> "people", stem |-> GretchenMarks],
    [dir |-> "people", stem |-> SarahChen],
    [dir |-> "organizations", stem |-> AcmeLabs],
    [dir |-> "concepts", stem |-> wGraph] }

Present(st, dir) == {f \in FileIds : f.dir = dir /\ st[f].kind # "absent"}

\* the orders glob('*.md') can enumerate a directory in
Perms(S) ==
  {p \in [1..Cardinality(S) -> S] : \A i, j \in 1..Cardinality(S) : p[i] = p[j] => i = j}
ScanOrders(st) ==
  {p \o o \o c : p \in Perms(Present(st, "people")),
                 o \in Perms(Present(st, "organizations")),
                 c \in Perms(Present(st, "concepts"))}

NoStats == [people |-> 0, organizations |-> 0, concepts |-> 0]

\* filepath.name.startswith('.')
Hidden(f) == Head(f.stem) = "."

\* the loops of scan without the test of the file name
RECURSIVE ScanFrom_hidden_too(_, _, _, _, _)
ScanFrom_hidden_too(reg, st, order, i, stats) ==
  LET f == order[i]
      AfterIndex(r) ==
        IF r.raised THEN [reg |-> r.reg, raised |-> TRUE, stats |-> stats]
        ELSE ScanFrom_hidden_too(r.reg, st, order, i + 1, [stats EXCEPT ![f.dir] = @ + 1])
      AfterLoad(entity) ==
        IF ~entity.found THEN ScanFrom_hidden_too(reg, st, order, i + 1, stats)
        ELSE AfterIndex(_index_entity(reg, entity.ent, f.dir))
  IN  IF i > Len(order) THEN [reg |-> reg, raised |-> FALSE, stats |-> stats]
      ELSE AfterLoad(_load_entity(NewOid(reg), Path(reg.vault_path, f.dir, f.stem),
                                  TypeOfDir[f.dir], st[f]))

\* the three loops of scan over the files in order, from file i on; a file
\* whose name starts with '.' is passed over; an exception out of
\* _index_entity ends the scan where it is
RECURSIVE ScanFrom(_, _, _, _, _)
ScanFrom(reg, st, order, i, stats) ==
  LET f == order[i]
      AfterIndex(r) ==
        IF r.raised THEN [reg |-> r.reg, raised |-> TRUE, stats |-> stats]
        ELSE ScanFrom(r.reg, st, order, i + 1, [stats EXCEPT ![f.dir] = @ + 1])
      AfterLoad(entity) ==
        IF ~entity.found THEN ScanFrom(reg, st, order, i + 1, stats)
        ELSE AfterIndex(_index_entity(reg, entity.ent, f.dir))
  IN  IF i > Len(order) THEN [reg |-> reg, raised |-> FALSE, stats |-> stats]
      ELSE IF Hidden(f) THEN ScanFrom(reg, st, order, i + 1, stats)
      ELSE AfterLoad(_load_entity(NewOid(reg), Path(reg.vault_path, f.dir, f.stem),
                                  TypeOfDir[f.dir], st[f]))

scan(reg, st, order) == ScanFrom(reg, st, order, 1, NoStats)

(***************************************************************************)
(* EntityRegistry.add_alias                                                *)
(***************************************************************************)
\* the code reaches write_text: the record is read and parsed, its aliases
\* support 'in', and alias is not among them
AliasesParsed(content) ==
  /\ content.kind \in {"empty", "map"}
  /\ AliasesRead(content).t = "list"
NotIn(alias, items) == \A i \in 1..Len(items) : items[i] # alias

\* the text add_alias writes and what the code reads out of it again
Dashes == <<"-","-","-">>
NL == <<"\n">>

\* s.find(t) + 1: the first position of t in s, 0 when t is not in s
FirstAt(s, t) ==
  LET at == {i \in 1..(Len(s) - Len(t) + 1) : SubSeq(s, i, i + Len(t) - 1) = t}
  IN  IF at = {} THEN 0 ELSE CHOOSE i \in at : \A j \in at : i <= j

\* s.split(sep)
RECURSIVE SplitAt(_, _)
SplitAt(s, sep) ==
  LET Cut(i) ==
        IF i = 0 THEN <<s>>
        ELSE <<SubSeq(s, 1, i - 1)>> \o SplitAt(SubSeq(s, i + Len(sep), Len(s)), sep)
  IN  Cut(FirstAt(s, sep))

\* content.split('---', 2): at most three parts
split_dashes_2(content) ==
  LET Second(first, rest) ==
        LET Cut(j) ==
              IF j = 0 THEN <<first, rest>>
              ELSE <<first, SubSeq(rest, 1, j - 1), SubSeq(rest, j + 3, Len(rest))>>
        IN  Cut(FirstAt(rest, Dashes))
      First(i) ==
        IF i = 0 THEN <<content>>
        ELSE Second(SubSeq(content, 1, i - 1), SubSeq(content, i + 3, Len(content)))
  IN  First(FirstAt(content, Dashes))

KeyAliases == <<"a","l","i","a","s","e","s",":">>
KeyTitle == <<"t","i","t","l","e",":"," ">>
ItemMark == <<"-"," ">>
EmptyList == <<" ","[","]">>
FortyTwo == <<"4","2">>

\* yaml.dump(frontmatter, default_flow_style=False) of a mapping with the
\* fields 'aliases' (a list) and 'title' (a str, or missing): block style,
\* keys sorted; the strings of the model are written as plain scalars
DumpScalar(item) == IF IsStr(item) THEN item ELSE FortyTwo
RECURSIVE DumpItems(_)
DumpItems(items) ==
  IF items = <<>> THEN <<>>
  ELSE ItemMark \o DumpScalar(Head(items)) \o NL \o DumpItems(Tail(items))
yaml_dump(frontmatter) ==
  (IF frontmatter.aliases.v = <<>> THEN KeyAliases \o EmptyList \o NL
   ELSE KeyAliases \o NL \o DumpItems(frontmatter.aliases.v))
  \o (IF frontmatter.title.t = "str" THEN KeyTitle \o frontmatter.title.v[1] \o NL ELSE <<>>)

\* f"---\n{yaml.dump(frontmatter, default_flow_style=False)}---{parts[2]}"
new_content(frontmatter, parts2) == Dashes \o NL \o yaml_dump(frontmatter) \o Dashes \o parts2

\* yaml.safe_load of a text in that style, whole or cut short inside a
\* scalar: the fields 'aliases' and 'title' of the mapping; none when the
\* text holds no node
LoadScalar(text) == IF text = FortyTwo THEN IntItem ELSE text
RECURSIVE LoadItems(_, _)
LoadItems(lines, i) ==
  IF i > Len(lines) THEN <<>>
  ELSE IF ~IsPrefix(ItemMark, lines[i]) THEN <<>>
  ELSE <<LoadScalar(SubSeq(lines[i], 3, Len(lines[i])))>> \o LoadItems(lines, i + 1)
safe_load(text) ==
  LET lines == SelectSeq(SplitAt(text, NL), LAMBDA l : l # <<>>)
      First(S) == CHOOSE i \in S : \A j \in S : i <= j
      AliasesAt(listed, empty) ==
        IF listed # {} THEN YList(LoadItems(lines, First(listed) + 1))
        ELSE IF empty # {} THEN YList(<<>>)
        ELSE YMissing
      TitleAt(titled) ==
        IF titled = {} THEN YMissing
        ELSE YStr(SubSeq(lines[First(titled)], Len(KeyTitle) + 1, Len(lines[First(titled)])))
  IN  [none |-> lines = <<>>,
       aliases |-> AliasesAt({i \in 1..Len(lines) : lines[i] = KeyAliases},
                             {i \in 1..Len(lines) : lines[i] = KeyAliases \o EmptyList}),
       title |-> TitleAt({i \in 1..Len(lines) : IsPrefix(KeyTitle, lines[i])})]

\* the content of a file with the text add_alias wrote, as _load_entity and
\* add_alias take it apart: startswith('---'), split('---', 2), safe_load
read_back(text) ==
  LET Parts(parts) ==
        LET Loaded_(fm) ==
              IF fm.none THEN File("empty", YMissing, YMissing, parts[3], TRUE)
              ELSE File("map", fm.aliases, fm.title, parts[3], TRUE)
        IN  IF ~IsPrefix(Dashes, text) \/ Len(parts) < 3
            THEN File("nofm", YMissing, YMissing, text, TRUE)
            ELSE Loaded_(safe_load(parts[2]))
  IN  Parts(split_dashes_2(text))

\* match.aliases = aliases on the object match: every key that holds the
\* object sees it
SetAliases(index, oid, aliases) ==
  [i \in 1..Len(index) |->
     IF index[i].ent.oid = oid THEN [index[i] EXCEPT !.ent.aliases = aliases] ELSE index[i]]

\* add_alias from the read of the record's file to the test of
\* 'alias not in aliases': whether the code goes on to write, and the locals
\* it then holds (aliases with alias appended, the other fields of
\* frontmatter, parts[2])
read_record(st, match, alias) ==
  LET ReadOf(content) ==
        IF AliasesParsed(content) /\ NotIn(alias, AliasesRead(content).v)
        THEN [ok |-> TRUE, aliases |-> YList(Append(AliasesRead(content).v, alias)),
              title |-> content.title, parts2 |-> content.body]
        ELSE [ok |-> FALSE, aliases |-> YMissing, title |-> YMissing, parts2 |-> <<>>]
  IN  ReadOf(st[[dir |-> match.ent.filepath.dir, stem |-> match.ent.filepath.stem]])

\* the write with the file read again just before it: the aliases written
\* are those now in the file with alias appended
write_record_rereading(reg, st, match, rec, alias, entity_type) ==
  LET f == [dir |-> match.ent.filepath.dir, stem |-> match.ent.filepath.stem]
      Fresh(aliases) ==
        [result |-> TRUE, reg |-> reg,
         st |-> [st EXCEPT ![f] =
                   read_back(new_content([aliases |-> aliases, title |-> st[f].title],
                                         st[f].body))]]
  IN  IF AliasesRead(st[f]).t = "list"
      THEN Fresh(YList(Append(AliasesRead(st[f]).v, alias)))
      ELSE [result |-> FALSE, reg |-> reg, st |-> st]

\* add_alias from write_text to its return, with the locals rec it read: the
\* file becomes new_content, the match and the index are brought up to date
write_record(reg, st, match, rec, alias, entity_type) ==
  LET f == [dir |-> match.ent.filepath.dir, stem |-> match.ent.filepath.stem]
      frontmatter == [aliases |-> rec.aliases, title |-> rec.title]
      written == read_back(new_content(frontmatter, rec.parts2))
      oid == IF match.ent.oid = 0 THEN NewOid(reg) ELSE match.ent.oid
      reg1 == [reg EXCEPT !.people = SetAliases(@, oid, rec.aliases),
                          !.organizations = SetAliases(@, oid, rec.aliases),
                          !.concepts = SetAliases(@, oid, rec.aliases)]
      m == [match.ent EXCEPT !.oid = oid, !.aliases = rec.aliases]
      Written(r) ==
        [result |-> ~r.raised, reg |-> r.reg, st |-> [st EXCEPT ![f] = written]]
  IN  IF ~st[f].writable THEN [result |-> FALSE, reg |-> reg, st |-> st]
      ELSE Written(_index_entity(reg1, m, _get_index_for_type(entity_type)))

\* the result of add_alias: its return value, the registry and the content
\* of the record's file after it
add_alias(reg, st, name, alias, entity_type) ==
  LET unchanged == [result |-> FALSE, reg |-> reg, st |-> st]
      Found(match) ==
        LET Read(rec) ==
              IF rec.ok THEN write_record(reg, st, match, rec, alias, entity_type)
              ELSE unchanged
        IN  IF ~match.found THEN unchanged
            ELSE Read(read_record(st, match, alias))
  IN  Found(find(reg, name, entity_type, DEFAULT_MIN_CONFIDENCE))

(***************************************************************************)
(* The state machine: the vaults on disk, the module-level _registry_cache *)
(* and the calls made on it                                                *)
(***************************************************************************)
VARIABLES store, registry_cache, last, calls, edits, call, reads, writers

vars == <<store, registry_cache, last, calls, edits, call, reads, writers>>

\* call holds a call of a NameNormalizer classmethod made on its own: the
\* method, its arguments and what it returned; no call in the registry's runs
NoCall == [fn |-> "none", args |-> <<>>, out |-> <<>>]

\* reads holds, for each thread that reads the cached registry, the call it
\* is in: the method and its arguments, the place in _find_in_index (pc, the
\* finders still to try, the locals of the fuzzy loop) and what it returned;
\* overlapped tells that it made a step while the other thread was in a call
Readers == {1, 2}
Idle ==
  [pc |-> "idle", op |-> "none", name |-> <<>>, entity_type |-> "none",
   min_confidence |-> 0, finders |-> <<>>, i |-> 0, best_score |-> 0,
   best_match |-> None, out |-> <<>>, overlapped |-> FALSE]
NoReads == [r \in Readers |-> Idle]

\* writers holds, for each of two processes that have a registry of their
\* own on vault A, that registry and the add_alias call the process is in:
\* its arguments, its place (pc), the locals match and rec (aliases, the
\* other fields and parts[2], as read from the file) and what it returned;
\* raced tells that the other process wrote the file between this one's read
\* and its write
Writers == {1, 2}
NotStarted ==
  [pc |-> "new", reg |-> NewRegistry(0, ""), name |-> <<>>, alias |-> <<>>,
   entity_type |-> "none", match |-> None,
   rec |-> [ok |-> FALSE, aliases |-> YMissing, title |-> YMissing, parts2 |-> <<>>],
   result |-> FALSE, raced |-> FALSE]
NoWriters == [w \in Writers |-> NotStarted]

MaxCalls == 3
MaxEdits == 1

\* _registry_cache = None
NoRegistry == NewRegistry(0, "")

\* vault A as the model starts: disjoint names; a surname and an alias that
\* collide with another record's name; records that are not well-formed
SeedA1 ==
  [f \in FileIds |->
     CASE f.stem = LisaChang -> Plain(YMissing)
       [] f.stem = SarahChenJr -> Plain(YList(<<wSarah>>))
       [] f.stem = DavidChang -> Absent
       [] f.stem = GretchenMarks -> Absent
       [] f.stem = SarahChen -> Absent
       [] f.stem = DotLisaChang -> Absent
       [] f.stem = AcmeLabs -> Plain(YStr(wAcme))
       [] f.stem = wGraph -> File("nofm", YMissing, YMissing, Body, TRUE)]
SeedA2 ==
  [f \in FileIds |->
     CASE f.stem = LisaChang -> Plain(YList(<<wSally>>))
       [] f.stem = SarahChenJr -> Absent
       [] f.stem = DavidChang -> Plain(YList(<<LisaChang>>))
       [] f.stem = GretchenMarks -> Absent
       [] f.stem = SarahChen -> Absent
       [] f.stem = DotLisaChang -> Absent
       [] f.stem = AcmeLabs -> File("empty", YMissing, YMissing, Body, TRUE)
       [] f.stem = wGraph -> Plain(YList(<<>>))]
SeedA3 ==
  [f \in FileIds |->
     CASE f.stem = LisaChang -> Plain(YList(<<wLisa>>))
       [] f.stem = SarahChenJr -> File("unreadable", YMissing, YMissing, Body, TRUE)
       [] f.stem = DavidChang -> Absent
       [] f.stem = GretchenMarks -> Absent
       [] f.stem = SarahChen -> Absent
       [] f.stem = DotLisaChang -> Absent
       [] f.stem = AcmeLabs -> File("notmap", YMissing, YMissing, Body, TRUE)
       [] f.stem = wGraph -> File("badyaml", YMissing, YMissing, Body, TRUE)]
SeedB ==
  [f \in FileIds |->
     CASE f.stem = SarahChenJr -> Plain(YMissing)
       [] f.stem = GretchenMarks -> Plain(YMissing)
       [] f.stem = wGraph -> Plain(YMissing)
       [] OTHER -> Absent]
SeedStores == {SeedA1, SeedA2, SeedA3}
\* vault A with two people whose names normalize to the same key
SeedA4 ==
  [f \in FileIds |->
     CASE f.stem = SarahChen -> Plain(YMissing)
       [] f.stem = SarahChenJr -> Plain(YMissing)
       [] OTHER -> Absent]

\* what another writer can leave in a record's file
EditContents ==
  { Absent, Plain(YMissing), Plain(YNull), Plain(YList(<<IntItem>>)),
    File("map", YList(<<wSally>>), YStr(wNote), Body, FALSE),
    File("nofm", YMissing, YMissing, Body, TRUE), File("badyaml", YMissing, YMissing, Body, TRUE),
    File("notmap", YMissing, YMissing, Body, TRUE), File("unreadable", YMissing, YMissing, Body, TRUE) }
\* the record the other writer edits: the one the calls resolve their names to
EditTargets == {[dir |-> "people", stem |-> LisaChang]}

TypeArgs == EntityTypes \cup {"none"}

Called(op, result, raised) == [op |-> op, result |-> result, raised |-> raised]

Init ==
  /\ store \in {[r \in Roots |-> IF r = "vaultA" THEN a ELSE SeedB] : a \in SeedStores}
  /\ registry_cache = NoRegistry
  /\ last = Called("init", FALSE, FALSE)
  /\ calls = 0
  /\ edits = 0
  /\ call = NoCall
  /\ reads = NoReads
  /\ writers = NoWriters

\* if _registry_cache is None or refresh, with refresh ignored
MustBuild_ignoring_refresh(cache, refresh) == cache = NoRegistry

\* if _registry_cache is None or refresh
MustBuild(cache, refresh) == cache = NoRegistry \/ refresh

\* get_registry(vault_path, refresh)
GetRegistry(vault_path, refresh) ==
  /\ calls < MaxCalls
  /\ calls' = calls + 1
  /\ IF MustBuild(registry_cache, refresh)
     THEN \E order \in ScanOrders(store[vault_path]) :
            \E r \in {scan(NewRegistry(calls + 1, vault_path), store[vault_path], order)} :
              /\ registry_cache' = r.reg
              /\ last' = Called("build", TRUE, r.raised)
     ELSE /\ registry_cache' = registry_cache
          /\ last' = Called("reuse", TRUE, FALSE)
  /\ UNCHANGED <<store, edits, call, reads, writers>>

\* registry.scan() on the registry get_registry returned; what it returns is
\* kept in last.result (FALSE when it raised and returned nothing)
Scan ==
  /\ calls < MaxCalls
  /\ registry_cache # NoRegistry
  /\ calls' = calls + 1
  /\ \E order \in ScanOrders(store[registry_cache.vault_path]) :
       \E r \in {scan(registry_cache, store[registry_cache.vault_path], order)} :
         /\ registry_cache' = r.reg
         /\ last' = Called("scan", IF r.raised THEN FALSE ELSE r.stats, r.raised)
  /\ UNCHANGED <<store, edits, call, reads, writers>>

\* registry.add_alias(name, alias, entity_type)
AddAlias(name, alias, entity_type) ==
  /\ calls < MaxCalls
  /\ registry_cache # NoRegistry
  /\ calls' = calls + 1
  /\ \E r \in {add_alias(registry_cache, store[registry_cache.vault_path],
                          name, alias, entity_type)} :
       /\ registry_cache' = r.reg
       /\ store' = [store EXCEPT ![registry_cache.vault_path] = r.st]
       /\ last' = Called("add_alias", r.result, FALSE)
  /\ UNCHANGED <<edits, call, reads, writers>>

\* another writer creates, rewrites or deletes a record of a vault
EditRecord(root, f, content) ==
  /\ edits < MaxEdits
  /\ store[root][f] # content
  /\ edits' = edits + 1
  /\ store' = [store EXCEPT ![root][f] = content]
  /\ last' = Called("edit", FALSE, FALSE)
  /\ UNCHANGED <<registry_cache, calls, call, reads, writers>>

Next ==
  \/ \E vault_path \in Roots, refresh \in BOOLEAN : GetRegistry(vault_path, refresh)
  \/ Scan
  \/ \E name \in NameArgs, alias \in AliasArgs, entity_type \in TypeArgs :
       AddAlias(name, alias, entity_type)
  \/ \E f \in EditTargets, content \in EditContents : EditRecord("vaultA", f, content)

Spec == Init /\ [][Next]_vars

(***************************************************************************)
(* NameNormalizer called on its own: the texts are up to MaxWords words    *)
(* out of titles, suffixes and names in either case, with one or two       *)
(* blanks between them and blanks around                                   *)
(***************************************************************************)
MaxWords == 3
Words == {wDr, <<"d","r">>, <<"P","r","o","f">>, wJr, wPhD, <<"v">>, wLisa, wChang}
Blanks == {<<" ">>, <<" ", " ">>}

RECURSIVE TextsOf(_)
TextsOf(n) ==
  IF n = 0 THEN {<<>>}
  ELSE IF n = 1 THEN Words
  ELSE {t \o b \o w : t \in TextsOf(n - 1), b \in Blanks, w \in Words}
Texts ==
  UNION {TextsOf(n) : n \in 0..MaxWords}
    \cup {<<" ">> \o t \o <<" ">> : t \in TextsOf(1) \cup TextsOf(2)}
\* second arguments of similarity
Others == {<<>>, <<" ">>, wDr, wChang, LisaChang, Sp(wDr, LisaChang)}

InitNormalizer ==
  /\ store = [r \in Roots |-> SeedB]
  /\ registry_cache = NoRegistry
  /\ last = Called("init", FALSE, FALSE)
  /\ calls = 0
  /\ edits = 0
  /\ \E x \in Texts, y \in Others : call = [fn |-> "none", args |-> <<x, y>>, out |-> <<>>]
  /\ reads = NoReads
  /\ writers = NoWriters

\* NameNormalizer.normalize(x)
Normalize ==
  /\ call.fn = "none"
  /\ call' = [fn |-> "normalize", args |-> <<call.args[1]>>,
              out |-> <<normalize(call.args[1])>>]
  /\ UNCHANGED <<store, registry_cache, last, calls, edits, reads, writers>>

\* NameNormalizer.normalize on what normalize returned
NormalizeAgain ==
  /\ call.fn = "normalize"
  /\ Len(call.out) = 1
  /\ call' = [call EXCEPT !.out = Append(@, normalize(call.out[1]))]
  /\ UNCHANGED <<store, registry_cache, last, calls, edits, reads, writers>>

\* NameNormalizer.similarity(x, y), and similarity(x, x)
Similarity ==
  /\ call.fn = "none"
  /\ \E y \in {call.args[1], call.args[2]} :
       call' = [fn |-> "similarity", args |-> <<call.args[1], y>>,
                out |-> <<similarity(call.args[1], y)>>]
  /\ UNCHANGED <<store, registry_cache, last, calls, edits, reads, writers>>

NextNormalizer == Normalize \/ NormalizeAgain \/ Similarity

SpecNormalizer == InitNormalizer /\ [][NextNormalizer]_vars

(***************************************************************************)
(* The registry of vault A called with an alias that holds '---', the      *)
(* separator add_alias and _load_entity split a record's text at, and on a *)
(* vault with two people of the same normalized name                       *)
(***************************************************************************)
wDashed == <<"S","a","l","-","-","-","l","y">>
WriteNames == {LisaChang, wLisa, wChen}
WriteAliases == {wSally, wDashed}
WriteTypes == {"person", "none"}

InitWrite ==
  /\ store \in {[r \in Roots |-> IF r = "vaultA" THEN a ELSE SeedB] : a \in SeedStores \cup {SeedA4}}
  /\ registry_cache = NoRegistry
  /\ last = Called("init", FALSE, FALSE)
  /\ calls = 0
  /\ edits = 0
  /\ call = NoCall
  /\ reads = NoReads
  /\ writers = NoWriters

NextWrite ==
  \/ \E refresh \in BOOLEAN : GetRegistry("vaultA", refresh)
  \/ Scan
  \/ \E name \in WriteNames, alias \in WriteAliases, entity_type \in WriteTypes :
       AddAlias(name, alias, entity_type)

SpecWrite == InitWrite /\ [][NextWrite]_vars

(***************************************************************************)
(* scan() on vaults with a file whose name starts with '.', while another  *)
(* writer creates and deletes files                                        *)
(***************************************************************************)
\* vault A with people/Lisa Chang.md and people/.Lisa Chang.md, both
\* well-formed, and a concept that cannot be read
SeedA5 ==
  [f \in FileIds |->
     CASE f.stem = LisaChang -> Plain(YMissing)
       [] f.stem = DotLisaChang -> Plain(YList(<<wSally>>))
       [] f.stem = wGraph -> File("unreadable", YMissing, YMissing, Body, TRUE)
       [] OTHER -> Absent]

ScanTargets ==
  {[dir |-> "people", stem |-> DotLisaChang], [dir |-> "people", stem |-> LisaChang],
   [dir |-> "concepts", stem |-> wGraph]}
ScanContents == {Absent, Plain(YMissing), File("unreadable", YMissing, YMissing, Body, TRUE)}
ScanNames == {LisaChang, DotLisaChang}

InitScan ==
  /\ store \in {[r \in Roots |-> IF r = "vaultA" THEN a ELSE SeedB] : a \in {SeedA1, SeedA5}}
  /\ registry_cache = NoRegistry
  /\ last = Called("init", FALSE, FALSE)
  /\ calls = 0
  /\ edits = 0
  /\ call = NoCall
  /\ reads = NoReads
  /\ writers = NoWriters

NextScan ==
  \/ \E vault_path \in Roots, refresh \in BOOLEAN : GetRegistry(vault_path, refresh)
  \/ Scan
  \/ \E name \in ScanNames : AddAlias(name, wMarie, "person")
  \/ \E f \in ScanTargets, content \in ScanContents : EditRecord("vaultA", f, content)

SpecScan == InitScan /\ [][NextScan]_vars

(***************************************************************************)
(* Two threads that read the cached registry.  A call of find, exists or   *)
(* get_link goes through _find_in_index a tier at a time, and through the  *)
(* fuzzy loop an item at a time; the other thread can run between any two  *)
(* steps.  Every step is handed the registry and hands it back.            *)
(***************************************************************************)
\* find: the indexes the finders of a call search, in order
FindersFor(entity_type) ==
  IF entity_type \in EntityTypes THEN <<_get_index_for_type(entity_type)>> ELSE Dirs

\* what the method returns once find has returned match
Answer(reg, rd, match) ==
  CASE rd.op = "find" -> match
    [] rd.op = "exists" -> match.found
    [] rd.op = "get_link" -> link_of(reg, match)

\* a finder returned match: find returns it when it is a match or the finder
\* was the last one, and calls the next finder otherwise
Returned(reg, rd, match) ==
  IF match.found \/ Len(rd.finders) = 1
  THEN [rd EXCEPT !.pc = "done", !.out = <<Answer(reg, rd, match)>>]
  ELSE [rd EXCEPT !.pc = "exact", !.finders = Tail(@)]

\* _find_in_index up to the exact tier
exact_tier(reg, rd) ==
  LET index == IndexOf(reg, Head(rd.finders))
      Keyed(normalized) ==
        IF rd.name = <<>> THEN Returned(reg, rd, None)
        ELSE IF HasKey(index, normalized) THEN Returned(reg, rd, Some(Get(index, normalized)))
        ELSE [rd EXCEPT !.pc = "variant"]
  IN  [reg |-> reg, rd |-> Keyed(NormalizeM(rd.name))]

\* the variant tier with the confidence 0.9 assigned to the stored object,
\* which is then returned, and no copy made
variant_tier_in_place(reg, rd) ==
  LET which == Head(rd.finders)
      index == IndexOf(reg, which)
      Marked(oid) ==
        [i \in 1..Len(index) |->
           IF index[i].ent.oid = oid THEN [index[i] EXCEPT !.ent.confidence = CONF_VARIANT]
           ELSE index[i]]
      Hit(variants, vi) ==
        IF vi # 0
        THEN [reg |-> WithIndex(reg, which, Marked(Get(index, variants[vi]).oid)),
              rd |-> Returned(reg, rd, Some([Get(index, variants[vi])
                                               EXCEPT !.confidence = CONF_VARIANT]))]
        ELSE IF rd.min_confidence < CONF_EXACT
        THEN [reg |-> reg,
              rd |-> [rd EXCEPT !.pc = "fuzzy", !.i = 1, !.best_score = rd.min_confidence,
                                !.best_match = None]]
        ELSE [reg |-> reg, rd |-> Returned(reg, rd, None)]
  IN  Hit(VariantsM(rd.name), FirstVariantIn(index, VariantsM(rd.name)))

\* the variant tier, and the start of the fuzzy tier
variant_tier(reg, rd) ==
  LET index == IndexOf(reg, Head(rd.finders))
      Hit(variants, vi) ==
        IF vi # 0 THEN Returned(reg, rd, Some(Copy(Get(index, variants[vi]), CONF_VARIANT)))
        ELSE IF rd.min_confidence < CONF_EXACT
        THEN [rd EXCEPT !.pc = "fuzzy", !.i = 1, !.best_score = rd.min_confidence,
                        !.best_match = None]
        ELSE Returned(reg, rd, None)
  IN  [reg |-> reg, rd |-> Hit(VariantsM(rd.name), FirstVariantIn(index, VariantsM(rd.name)))]

\* one turn of the fuzzy loop, or its end
fuzzy_step(reg, rd) ==
  LET index == IndexOf(reg, Head(rd.finders))
      Scored(score) ==
        IF score > rd.best_score
        THEN [rd EXCEPT !.i = @ + 1, !.best_score = score,
                        !.best_match = Some(Copy(index[rd.i].ent, score))]
        ELSE [rd EXCEPT !.i = @ + 1]
  IN  [reg |-> reg,
       rd |-> IF rd.i > Len(index) THEN Returned(reg, rd, rd.best_match)
              ELSE Scored(SimilarityM(rd.name, index[rd.i].key))]

read_step(reg, rd) ==
  CASE rd.pc = "exact" -> exact_tier(reg, rd)
    [] rd.pc = "variant" -> variant_tier(reg, rd)
    [] rd.pc = "fuzzy" -> fuzzy_step(reg, rd)

InCall(rd) == rd.pc \in {"exact", "variant", "fuzzy"}

\* the calls each thread makes
Requests(r) ==
  IF r = 1
  THEN {[op |-> "find", name |-> n, entity_type |-> t] :
          n \in {LisaMarieChang, wLisa}, t \in {"person", "none"}}
  ELSE {[op |-> o, name |-> n, entity_type |-> "none"] :
          o \in {"exists", "get_link"}, n \in {LisaMarieChang, wZed}}

\* thread r calls find, exists or get_link
ReadCall(r, op, name, entity_type) ==
  /\ registry_cache # NoRegistry
  /\ reads[r].pc \in {"idle", "done"}
  /\ reads' = [reads EXCEPT ![r] =
                 [Idle EXCEPT !.pc = "exact", !.op = op, !.name = name,
                              !.entity_type = entity_type,
                              !.min_confidence = DEFAULT_MIN_CONFIDENCE,
                              !.finders = FindersFor(entity_type)]]
  /\ UNCHANGED <<store, registry_cache, last, calls, edits, call, writers>>

\* thread r goes on to the next tier, the next item or the return
ReadStep(r) ==
  /\ InCall(reads[r])
  /\ \E s \in {read_step(registry_cache, reads[r])} :
       /\ registry_cache' = s.reg
       /\ reads' = [reads EXCEPT ![r] =
                      [s.rd EXCEPT !.overlapped =
                         @ \/ \E o \in Readers \ {r} : InCall(reads[o])]]
  /\ UNCHANGED <<store, last, calls, edits, call, writers>>

\* thread r calls get_all_people, get_all_organizations or get_all_concepts
GetAll(r, which) ==
  /\ registry_cache # NoRegistry
  /\ reads[r].pc = "idle"
  /\ reads' = [reads EXCEPT ![r] =
                 [Idle EXCEPT !.pc = "done", !.op = "get_all", !.entity_type = which,
                              !.out = <<get_all(registry_cache, which)>>]]
  /\ UNCHANGED <<store, registry_cache, last, calls, edits, call, writers>>

\* thread r calls to_json
ToJson(r) ==
  /\ registry_cache # NoRegistry
  /\ reads[r].pc = "idle"
  /\ reads' = [reads EXCEPT ![r] =
                 [Idle EXCEPT !.pc = "done", !.op = "to_json",
                              !.out = <<to_json(registry_cache)>>]]
  /\ UNCHANGED <<store, registry_cache, last, calls, edits, call, writers>>

\* vault A with the people Lisa Chang and David Chang, whose alias is
\* 'Lisa Chang'; the registry is built and handed out before a thread reads
InitRead ==
  /\ store = [r \in Roots |-> IF r = "vaultA" THEN SeedA2 ELSE SeedB]
  /\ registry_cache = NoRegistry
  /\ last = Called("init", FALSE, FALSE)
  /\ calls = 0
  /\ edits = 0
  /\ call = NoCall
  /\ reads = NoReads
  /\ writers = NoWriters

NextRead ==
  \/ /\ reads = NoReads
     /\ \E vault_path \in Roots : GetRegistry(vault_path, FALSE)
  \/ /\ reads = NoReads
     /\ \E alias \in AliasArgs : AddAlias(wLisa, alias, "person")
  \/ \E r \in Readers : \E q \in Requests(r) : ReadCall(r, q.op, q.name, q.entity_type)
  \/ \E r \in Readers : ReadStep(r)
  \/ GetAll(1, "people")
  \/ ToJson(2)

SpecRead == InitRead /\ [][NextRead]_vars

(***************************************************************************)
(* Two processes, each with a registry of its own on vault A, call         *)
(* add_alias.  The file system is all they share: the other process can    *)
(* run between the find, the read of the file and the write of it.         *)
(***************************************************************************)
TheFile(wr) == [dir |-> wr.match.ent.filepath.dir, stem |-> wr.match.ent.filepath.stem]

\* the aliases each process adds, and the names it gives the record
TwoAliases(w) == IF w = 1 THEN {wSally} ELSE {wMarie, wsally}
TwoNames == {LisaChang, wLisa}

\* process w builds its registry: EntityRegistry(vault_path) and scan()
WriterBuild(w) ==
  /\ writers[w].pc = "new"
  /\ \E order \in ScanOrders(store["vaultA"]) :
       \E r \in {scan(NewRegistry(w, "vaultA"), store["vaultA"], order)} :
         /\ ~r.raised
         /\ writers' = [writers EXCEPT ![w].pc = "idle", ![w].reg = r.reg]
  /\ UNCHANGED <<store, registry_cache, last, calls, edits, call, reads>>

\* process w enters add_alias(name, alias, 'person'): find on its registry
WriterFind(w, name, alias) ==
  /\ writers[w].pc = "idle"
  /\ \E match \in {find(writers[w].reg, name, "person", DEFAULT_MIN_CONFIDENCE)} :
       writers' = [writers EXCEPT ![w].name = name, ![w].alias = alias,
                                  ![w].entity_type = "person", ![w].match = match,
                                  ![w].pc = IF match.found THEN "found" ELSE "done"]
  /\ UNCHANGED <<store, registry_cache, last, calls, edits, call, reads>>

\* process w reads and parses the file
WriterRead(w) ==
  /\ writers[w].pc = "found"
  /\ \E rec \in {read_record(store["vaultA"], writers[w].match, writers[w].alias)} :
       writers' = [writers EXCEPT ![w].rec = rec,
                                  ![w].pc = IF rec.ok THEN "read" ELSE "done"]
  /\ UNCHANGED <<store, registry_cache, last, calls, edits, call, reads>>

\* process w writes the file, brings its registry up to date and returns
WriterWrite(w) ==
  /\ writers[w].pc = "read"
  /\ \E r \in {write_record(writers[w].reg, store["vaultA"], writers[w].match,
                            writers[w].rec, writers[w].alias, writers[w].entity_type)} :
       /\ store' = [store EXCEPT !["vaultA"] = r.st]
       /\ writers' =
            [o \in Writers |->
               IF o = w THEN [writers[w] EXCEPT !.pc = "done", !.reg = r.reg,
                                                !.result = r.result]
               ELSE IF writers[o].pc = "read" /\ TheFile(writers[o]) = TheFile(writers[w])
               THEN [writers[o] EXCEPT !.raced = TRUE]
               ELSE writers[o]]
  /\ UNCHANGED <<registry_cache, last, calls, edits, call, reads>>

InitTwo ==
  /\ store \in {[r \in Roots |-> IF r = "vaultA" THEN a ELSE SeedB] : a \in SeedStores}
  /\ registry_cache = NoRegistry
  /\ last = Called("init", FALSE, FALSE)
  /\ calls = 0
  /\ edits = 0
  /\ call = NoCall
  /\ reads = NoReads
  /\ writers = NoWriters

NextTwo ==
  \/ \E w \in Writers : WriterBuild(w)
  \/ \E w \in Writers : \E name \in TwoNames, alias \in TwoAliases(w) :
       WriterFind(w, name, alias)
  \/ \E w \in Writers : WriterRead(w)
  \/ \E w \in Writers : WriterWrite(w)

SpecTwo == InitTwo /\ [][NextTwo]_vars

(***************************************************************************)
(* What the claims speak of                                                *)
(***************************************************************************)
Range(seq) == {seq[i] : i \in 1..Len(seq)}
Upper(s) ==
  [i \in 1..Len(s) |->
     IF \E c \in DOMAIN LowerMap : LowerMap[c] = s[i]
     THEN CHOOSE c \in DOMAIN LowerMap : LowerMap[c] = s[i]
     ELSE s[i]]

\* the records of a directory of a vault that _load_entity loads
Loaded(st, dir) == {f \in Present(st, dir) : ~LoadRaises(st[f])}
\* the keys a record claims for its canonical name, and for its aliases
CanonicalKeys(name) == {NormalizeM(name)} \cup Range(VariantsM(name))
AliasKeys(aliases) ==
  UNION { {NormalizeM(a)} \cup Range(VariantsM(a)) : a \in {x \in Range(aliases.v) : IsStr(x)} }
ClaimedKeys(st, f) == CanonicalKeys(f.stem) \cup AliasKeys(AliasesRead(st[f]))

\* the mentions of a canonical name: other letter case and spacing, titles
\* in front and suffixes behind, and the surname alone
Surname(name) ==
  LET kept == Split(normalize(name))
      titles == Len(Split(Lower(name))) - Len(StripTitles(Split(Lower(name))))
  IN  Split(name)[titles + Len(kept)]
Mentions(name) ==
  { name, Lower(name), Upper(name), <<" ">> \o Join(Split(name)) \o <<" ", " ">>,
    Sp(wDr, name), Sp(name, wPhD), Sp(wDr, Sp(name, wPhD)),
    Surname(name), Lower(Surname(name)) }

\* find returned the record stored at file f of the registry's vault
Returns(r, reg, f) ==
  /\ r.found
  /\ r.ent.name = f.stem
  /\ r.ent.filepath = Path(reg.vault_path, f.dir, f.stem)

\* get_registry has just built the registry: a new registry, scanned to the end
JustBuilt == last.op = "build" /\ ~last.raised

\* a record with a name of two or more words whose keys no other record of
\* its type claims
SoleClaimant(st, f) ==
  /\ f \in Loaded(st, f.dir)
  /\ Len(Split(normalize(f.stem))) >= 2
  /\ \A g \in Loaded(st, f.dir) \ {f} : ClaimedKeys(st, g) \cap CanonicalKeys(f.stem) = {}

\* C1: after scan() of a new registry, every mention of a record with a name
\* of two or more words (the name in any case and spacing, with titles and
\* suffixes, the surname alone) resolves, under the record's type, to that
\* record, when no other record of the type claims its keys.
C1_MentionsResolve ==
  JustBuilt =>
    \A f \in FileIds :
      SoleClaimant(store[registry_cache.vault_path], f) =>
        \A q \in Mentions(f.stem) :
          Returns(Find(registry_cache, q, TypeOfDir[f.dir]), registry_cache, f)

\* two records of disjoint names are indexed, and 'Chen' and 'Chang' each
\* resolve to their own
C1_Witness ==
  LET st == store[registry_cache.vault_path]
      lisa == [dir |-> "people", stem |-> LisaChang]
      sarah == [dir |-> "people", stem |-> SarahChenJr]
  IN  /\ JustBuilt
      /\ SoleClaimant(st, lisa) /\ SoleClaimant(st, sarah)
      /\ Returns(Find(registry_cache, wChen, "person"), registry_cache, sarah)
      /\ Returns(Find(registry_cache, wChang, "person"), registry_cache, lisa)
      /\ Returns(Find(registry_cache, Sp(wDr, Sp(LisaChang, wPhD)), "person"),
                 registry_cache, lisa)

TypeOfIndex(which) == TypeOfDir[which]

\* C2: in every state, under every scan order, the key normalize(N) of every
\* indexed record named N maps to a record whose normalized name is
\* normalize(N), and find(N, type) returns such a record, whatever variants
\* and aliases of other records collide with the key.
C2_CanonicalKeyOwned ==
  \A which \in IndexNames :
    \A e \in Values(IndexOf(registry_cache, which)) :
      LET k == NormalizeM(e.name)
          r == Find(registry_cache, e.name, TypeOfIndex(which))
      IN  /\ HasKey(IndexOf(registry_cache, which), k)
          /\ NormalizeM(Get(IndexOf(registry_cache, which), k).name) = k
          /\ r.found
          /\ NormalizeM(r.ent.name) = k

\* David Chang, whose alias is 'Lisa Chang', was indexed before Lisa Chang
\* (he holds the shared surname), and the key 'lisa chang' is Lisa Chang's
C2_Witness ==
  LET people == registry_cache.people
  IN  /\ HasKey(people, Lower(wChang)) /\ HasKey(people, Lower(LisaChang))
      /\ Get(people, Lower(wChang)).name = DavidChang
      /\ LisaChang \in Range(Get(people, Lower(wChang)).aliases.v)
      /\ Get(people, Lower(LisaChang)).name = LisaChang

\* the record find resolved name to, in the state before a call
Same(r, m) ==
  /\ r.found
  /\ r.ent.name = m.ent.name
  /\ r.ent.filepath = m.ent.filepath

\* no other record held the key normalize(alias) in the index of the type
KeyFree(reg, alias, entity_type, m) ==
  LET index == IndexOf(reg, _get_index_for_type(entity_type))
  IN  HasKey(index, NormalizeM(alias)) =>
        Get(index, NormalizeM(alias)).filepath = m.ent.filepath

\* C3: after add_alias(name, alias, type) returns True, no other record of
\* the type having held the alias key, find(alias, type) returns the record
\* name resolved to, with confidence 0.9 or 1.0, and find(name, type) returns
\* the same name and location as before.
C3_AliasResolves ==
  [][\A name \in NameArgs, alias \in AliasArgs, entity_type \in EntityTypes :
       LET m == Find(registry_cache, name, entity_type)
           out == add_alias(registry_cache, store[registry_cache.vault_path],
                            name, alias, entity_type)
       IN  (/\ AddAlias(name, alias, entity_type)
            /\ out.result
            /\ KeyFree(registry_cache, alias, entity_type, m))
           => /\ Same(Find(registry_cache', alias, entity_type), m)
              /\ Find(registry_cache', alias, entity_type).ent.confidence
                   \in {CONF_VARIANT, CONF_EXACT}
              /\ Same(Find(registry_cache', name, entity_type), m)]_vars

\* C4: whenever add_alias returns False, the content of every record, every
\* index (keys, records, their aliases and confidence) and the reverse map
\* are as they were before the call.
C4_FalseChangesNothing ==
  [][\A name \in NameArgs, alias \in AliasArgs, entity_type \in TypeArgs :
       (/\ AddAlias(name, alias, entity_type)
        /\ ~add_alias(registry_cache, store[registry_cache.vault_path],
                      name, alias, entity_type).result)
       => /\ store' = store
          /\ registry_cache' = registry_cache]_vars

\* the record add_alias reads: the file of the record name resolves to
TargetContent(name, entity_type) ==
  LET m == Find(registry_cache, name, entity_type)
  IN  store[registry_cache.vault_path][[dir |-> m.ent.filepath.dir,
                                        stem |-> m.ent.filepath.stem]]

\* C5: add_alias returns True whenever name resolves and the record can be
\* read, parsed and written, also when the record has no metadata block and
\* when the alias is already in the persisted list.
C5_TrueWhenResolvable ==
  [][\A name \in NameArgs, alias \in AliasArgs, entity_type \in TypeArgs :
       (/\ AddAlias(name, alias, entity_type)
        /\ Find(registry_cache, name, entity_type).found
        /\ TargetContent(name, entity_type).kind \in {"nofm", "empty", "map"}
        /\ TargetContent(name, entity_type).kind = "map" =>
             /\ TargetContent(name, entity_type).aliases.t \in {"missing", "str", "list"}
             /\ \A a \in Range(TargetContent(name, entity_type).aliases.v) : IsStr(a)
        /\ TargetContent(name, entity_type).writable)
       => last'.result]_vars

\* no two entries of a list equal ignoring letter case
NoCaseDuplicates(items) ==
  \A i, j \in 1..Len(items) : Lower(items[i]) = Lower(items[j]) => i = j

\* C6: add_alias keeps the persisted alias list, and the aliases of the
\* record in memory, free of entries equal ignoring letter case.
C6_NoCaseInsensitiveDuplicates ==
  [][\A name \in NameArgs, alias \in AliasArgs, entity_type \in TypeArgs :
       (/\ AddAlias(name, alias, entity_type)
        /\ Find(registry_cache, name, entity_type).found
        /\ NoCaseDuplicates(AliasesRead(TargetContent(name, entity_type)).v))
       => LET f == [dir |-> Find(registry_cache, name, entity_type).ent.filepath.dir,
                    stem |-> Find(registry_cache, name, entity_type).ent.filepath.stem]
          IN  /\ NoCaseDuplicates(AliasesRead(store'[registry_cache.vault_path][f]).v)
              /\ last'.result =>
                   NoCaseDuplicates(Find(registry_cache', name, entity_type).ent.aliases.v)]_vars

\* a record whose file is readable and whose metadata block is well-formed
WellFormed(content) ==
  \/ content.kind \in {"nofm", "empty"}
  \/ /\ content.kind = "map"
     /\ content.aliases.t \in {"missing", "str", "list"}
     /\ \A a \in Range(content.aliases.v) : IsStr(a)

\* file f of the registry's vault is indexed under its canonical key
Indexed(reg, f) ==
  /\ HasKey(IndexOf(reg, f.dir), NormalizeM(f.stem))
  /\ Get(IndexOf(reg, f.dir), NormalizeM(f.stem)).filepath = Path(reg.vault_path, f.dir, f.stem)

\* C7: scan() never raises, and whatever records are unreadable or
\* malformed, every well-formed record of the three types is indexed.
C7_ScanToleratesBadRecords ==
  last.op \in {"build", "scan"} =>
    /\ ~last.raised
    /\ \A f \in FileIds :
         WellFormed(store[registry_cache.vault_path][f]) => Indexed(registry_cache, f)

\* every key of every index maps to a record the store holds now and comes
\* from that record's name or from its aliases as they are now
OnlyFromStore(reg, st) ==
  \A which \in IndexNames :
    \A i \in 1..Len(IndexOf(reg, which)) :
      LET entry == IndexOf(reg, which)[i]
          f == [dir |-> entry.ent.filepath.dir, stem |-> entry.ent.filepath.stem]
      IN  /\ entry.ent.filepath.root = reg.vault_path
          /\ f \in Loaded(st, f.dir)
          /\ entry.key \in ClaimedKeys(st, f)

\* C8: after scan() returns on a registry scanned before, every key maps to
\* a record now in the store and comes from its current name or aliases.
C8_RescanIsFresh ==
  (last.op = "scan" /\ ~last.raised) =>
    OnlyFromStore(registry_cache, store[registry_cache.vault_path])

\* C9: get_registry(root) returns a registry of that root, also after a call
\* with another root and with refresh False.
C9_OneRegistryPerRoot ==
  [][\A vault_path \in Roots, refresh \in BOOLEAN :
       GetRegistry(vault_path, refresh) =>
         /\ registry_cache'.vault_path = vault_path
         /\ \A e \in AllEntities(registry_cache') : e.filepath.root = vault_path]_vars

\* C10: get_registry builds on the first call; a later call with refresh
\* False returns the cached instance as it is, whatever the store has become;
\* a call with refresh True caches a new instance whose index comes only from
\* the store as it is then.
C10_BuildOnceUnlessRefresh ==
  [][\A vault_path \in Roots, refresh \in BOOLEAN :
       GetRegistry(vault_path, refresh) =>
         IF registry_cache = NoRegistry \/ refresh
         THEN /\ registry_cache'.rid # registry_cache.rid
              /\ registry_cache'.vault_path = vault_path
              /\ OnlyFromStore(registry_cache', store[vault_path])
              /\ ~last'.raised =>
                   \A f \in Loaded(store[vault_path], "people")
                            \cup Loaded(store[vault_path], "organizations")
                            \cup Loaded(store[vault_path], "concepts") :
                     Indexed(registry_cache', f)
         ELSE registry_cache' = registry_cache]_vars

\* a refresh after the store changed under a registry that still shows the
\* old content: the new instance no longer holds the deleted record
C10_Witness ==
  /\ last.op = "build"
  /\ registry_cache.rid = 2
  /\ store["vaultA"][[dir |-> "people", stem |-> LisaChang]].kind = "absent"
  /\ registry_cache.vault_path = "vaultA"
  /\ ~HasKey(registry_cache.people, Lower(LisaChang))

\* the last call was one that writes the registry: every registry a state
\* holds is first held in such a state
RegistryWritten == last.op \in {"build", "scan", "add_alias"}

\* names that resolve on each tier and in each index, and names that do not
LinkNames == {LisaChang, wChen, wsally, wAcme, wGraph, wZed, <<>>}

\* the text between '[[' and ']]'
LinkPath(link) == SubSeq(link, 3, Len(link) - 2)

\* C11: for every name and type, exists is True exactly when find returns a
\* record, exactly when get_link returns a link; the link is '[[' directory
\* '/' stem ']]', and root '/' link path '.md' is the found record's location.
C11_LinkRoundTrip ==
  RegistryWritten =>
    \A name \in LinkNames, entity_type \in TypeArgs :
      LET r == Find(registry_cache, name, entity_type)
          l == get_link(registry_cache, name, entity_type)
      IN  /\ exists(registry_cache, name, entity_type) = r.found
          /\ ~l.raised
          /\ l.found = r.found
          /\ r.found =>
               /\ l.link = <<"[","[">> \o DirStr[r.ent.filepath.dir] \o Slash
                             \o r.ent.filepath.stem \o <<"]","]">>
               /\ RootStr[registry_cache.vault_path] \o Slash \o LinkPath(l.link) \o DotMd
                    = PathStr(r.ent.filepath)

\* 'Sarah Chen Jr.' is indexed and 'Chen' links to its record, whose stem
\* ends with a dot
C11_Witness ==
  /\ registry_cache.vault_path = "vaultB"
  /\ get_link(registry_cache, wChen, "person").found
  /\ LinkPath(get_link(registry_cache, wChen, "person").link)
       = DirStr["people"] \o Slash \o SarahChenJr
  /\ ~exists(registry_cache, wZed, "none")

\* the indexes find searches for a type
Searched(entity_type) ==
  IF entity_type \in EntityTypes THEN {_get_index_for_type(entity_type)} ELSE IndexNames

\* name matches no key of the searched indexes on any tier
MatchesNothing(reg, name, entity_type) ==
  \A which \in Searched(entity_type) :
    \A key \in Keys(IndexOf(reg, which)) :
      /\ key # NormalizeM(name)
      /\ key \notin Range(VariantsM(name))
      /\ SimilarityM(name, key) <= DEFAULT_MIN_CONFIDENCE

\* names of no record, the empty string, names made only of titles and suffixes
OddNames == {<<>>, wDr, Sp(wDr, wJr), wZed}

\* C12: in every state reachable by scan() and add_alias(), find, exists and
\* get_link raise for no string name: every key normalize and similarity are
\* given is a str and relative_to finds the path below the root; a name that
\* matches nothing yields None and False, and find('') is None.
C12_LookupsNeverRaise ==
  RegistryWritten =>
    /\ \A which \in IndexNames : \A key \in Keys(IndexOf(registry_cache, which)) : IsStr(key)
    /\ \A name \in OddNames, entity_type \in TypeArgs :
         LET r == Find(registry_cache, name, entity_type)
             l == get_link(registry_cache, name, entity_type)
         IN  /\ ~l.raised
             /\ (name = <<>> \/ MatchesNothing(registry_cache, name, entity_type)) =>
                  /\ ~r.found
                  /\ ~l.found
                  /\ ~exists(registry_cache, name, entity_type)

\* a scan was cut short by a record with an alias that is no str, and on the
\* index it left find('') is None, 'Zed' matches nothing, and 'Dr.' (empty
\* once normalized) gets an answer
C12_Witness ==
  /\ last.op \in {"build", "scan"} /\ last.raised
  /\ registry_cache.people # <<>>
  /\ ~Find(registry_cache, <<>>, "person").found
  /\ MatchesNothing(registry_cache, wZed, "none")
  /\ ~exists(registry_cache, wZed, "none")
  /\ Find(registry_cache, wDr, "person").found

\* neither normalize(name) nor a variant of name is a key of a searched index
NoKeyFor(reg, name, entity_type) ==
  \A which \in Searched(entity_type) :
    \A key \in Keys(IndexOf(reg, which)) :
      key # NormalizeM(name) /\ key \notin Range(VariantsM(name))

\* with min_confidence = 1.0 a name with no exact and no variant key finds
\* nothing
FuzzyDisabled ==
  \A name \in QueryNames, entity_type \in TypeArgs :
    NoKeyFor(registry_cache, name, entity_type) =>
      ~find(registry_cache, name, entity_type, CONF_EXACT).found

\* the people index holds the record 'Sarah Chen Jr.' and no other
OnlySarahChenJr ==
  /\ registry_cache.people # <<>>
  /\ \A e \in Values(registry_cache.people) : e.name = SarahChenJr

InIndex(reg, name, which) == _find_in_index(name, IndexOf(reg, which), DEFAULT_MIN_CONFIDENCE)

\* find with a type answers from that type's index alone
TypedFromOwnIndex ==
  \A name \in LinkNames, entity_type \in EntityTypes :
    Find(registry_cache, name, entity_type)
      = InIndex(registry_cache, name, _get_index_for_type(entity_type))

\* find with no type answers with the first of the person, organization and
\* concept lookups that is not None, and with None when all three are
UntypedFirstHit ==
  \A name \in LinkNames :
    LET p == InIndex(registry_cache, name, "people")
        o == InIndex(registry_cache, name, "organizations")
        c == InIndex(registry_cache, name, "concepts")
        r == Find(registry_cache, name, "none")
    IN  /\ p.found => r = p
        /\ (~p.found /\ o.found) => r = o
        /\ (~p.found /\ ~o.found) => r = c

\* C14: find(name, type) with one of the three types searches only that
\* type's index and never returns a record of another type; find(name) with
\* no type returns the first hit of the person, organization and concept
\* lookups in that order, and None only if all three are None.
C14_TypedLookup ==
  RegistryWritten =>
    /\ TypedFromOwnIndex
    /\ UntypedFirstHit
    /\ \A name \in LinkNames, entity_type \in EntityTypes :
         Find(registry_cache, name, entity_type).found =>
           Find(registry_cache, name, entity_type).ent.entity_type = entity_type

\* C15: in every state reachable by scan() and add_alias(), every record
\* stored in an index has confidence 1.0, so a find that hits on the exact
\* tier returns confidence 1.0.
C15_StoredConfidenceIsOne ==
  /\ \A e \in AllEntities(registry_cache) : e.confidence = CONF_EXACT
  /\ \A name \in LinkNames, entity_type \in EntityTypes :
       HasKey(IndexOf(registry_cache, _get_index_for_type(entity_type)), NormalizeM(name)) =>
         Find(registry_cache, name, entity_type).ent.confidence = CONF_EXACT

\* C16: normalize is idempotent: for every string x, of any case and
\* spacing, with titles in front and suffixes behind or made of nothing
\* else, normalize(normalize(x)) = normalize(x).
C16_NormalizeIdempotent ==
  (call.fn = "normalize" /\ Len(call.out) = 2) => call.out[2] = call.out[1]

\* normalize was applied twice to ' Dr.  Prof Lisa', which it changes
C16_Witness ==
  /\ call.fn = "normalize"
  /\ Len(call.out) = 2
  /\ call.args[1] = wDr \o <<" ", " ">> \o <<"P","r","o","f">> \o <<" ">> \o wLisa
  /\ call.out[1] = Lower(wLisa)

\* C17: similarity(x, x) = 1.0 for every non-empty x, and similarity('', y)
\* = 0.0 for every y.
C17_SimilarityEnds ==
  call.fn = "similarity" =>
    /\ (call.args[1] = call.args[2] /\ call.args[1] # <<>>) => call.out[1] = CONF_EXACT
    /\ call.args[1] = <<>> => call.out[1] = 0

\* the object scan stored for the record of file f, and its place in the
\* order of the scan: a new registry numbers the objects as it loads them
StoredFor(reg, f) == Get(IndexOf(reg, f.dir), NormalizeM(f.stem))
IndexedBefore(reg, f, g) == StoredFor(reg, f).oid < StoredFor(reg, g).oid

\* f and g are two records of one type, with names of two or more words and
\* the same surname, which no record of the type has for a name or an alias
ShareSurname(st, f, g) ==
  /\ f # g /\ f.dir = g.dir
  /\ f \in Loaded(st, f.dir) /\ g \in Loaded(st, g.dir)
  /\ Len(Split(normalize(f.stem))) >= 2 /\ Len(Split(normalize(g.stem))) >= 2
  /\ LastWord(normalize(f.stem)) = LastWord(normalize(g.stem))
  /\ \A h \in Loaded(st, f.dir) :
       /\ NormalizeM(h.stem) # LastWord(normalize(f.stem))
       /\ \A a \in Range(AliasesRead(st[h]).v) :
            IsStr(a) => NormalizeM(a) # LastWord(normalize(f.stem))

\* C18: when two records of a type with names of two or more words share a
\* surname that no record or alias has for its whole name, find(surname,
\* type) after scan() returns the one of the two that was indexed first,
\* whichever the order of the scan.
C18_SharedSurnameFirstWins ==
  JustBuilt =>
    \A f, g \in FileIds :
      (/\ ShareSurname(store[registry_cache.vault_path], f, g)
       /\ IndexedBefore(registry_cache, f, g))
      => Returns(Find(registry_cache, Surname(f.stem), TypeOfDir[f.dir]), registry_cache, f)

\* David Chang was indexed before Lisa Chang and 'Chang' finds him
C18_Witness ==
  LET lisa == [dir |-> "people", stem |-> LisaChang]
      david == [dir |-> "people", stem |-> DavidChang]
  IN  /\ JustBuilt
      /\ ShareSurname(store[registry_cache.vault_path], david, lisa)
      /\ IndexedBefore(registry_cache, david, lisa)
      /\ Returns(Find(registry_cache, wChang, "person"), registry_cache, david)

\* the loaded records of the type of f that claim key k: for the name, a
\* variant of it, an alias or a variant of an alias
Claimants(st, dir, k) == {f \in Loaded(st, dir) : k \in ClaimedKeys(st, f)}
\* the loaded records whose normalized canonical name is k
NamedBy(st, dir, k) == {f \in Loaded(st, dir) : NormalizeM(f.stem) = k}
\* the claimant of k that the scan indexed first
FirstClaimant(reg, st, dir, k) ==
  CHOOSE f \in Claimants(st, dir, k) :
    \A g \in Claimants(st, dir, k) : StoredFor(reg, f).oid <= StoredFor(reg, g).oid

\* a call on the same registry left key k with the record that held it
KeptOwner(index, index2, k) ==
  HasKey(index2, k) /\ Get(index2, k).filepath = Get(index, k).filepath

\* C19 as stated: every key a record claims as a variant of its name, as a
\* normalized alias or as a variant of an alias stays with the first record
\* to claim it: after a scan it maps to the claimant indexed first.
C19_FirstClaimantKeepsKey ==
  JustBuilt =>
    \A which \in IndexNames :
      \A k \in Keys(IndexOf(registry_cache, which)) :
        Get(IndexOf(registry_cache, which), k).filepath.stem
          = FirstClaimant(registry_cache, store[registry_cache.vault_path], which, k).stem

\* C19 amended: a key stays with the first record to claim it unless it is
\* the normalized canonical name of a record indexed later, which then takes
\* it: after a scan a key that is no record's normalized name maps to the
\* claimant indexed first and a key that is maps to the record so named, and
\* a later scan() or add_alias() on the registry moves a key to another
\* record only if it is that record's normalized name.
C19_FirstClaimantUnlessCanonical ==
  /\ [](JustBuilt =>
         \A which \in IndexNames :
           \A k \in Keys(IndexOf(registry_cache, which)) :
             LET st == store[registry_cache.vault_path]
                 owner == Get(IndexOf(registry_cache, which), k).filepath.stem
             IN  IF NamedBy(st, which, k) = {}
                 THEN owner = FirstClaimant(registry_cache, st, which, k).stem
                 ELSE owner \in {f.stem : f \in NamedBy(st, which, k)})
  /\ [][(registry_cache'.rid = registry_cache.rid) =>
          \A which \in IndexNames :
            \A k \in Keys(IndexOf(registry_cache, which)) :
              \/ KeptOwner(IndexOf(registry_cache, which), IndexOf(registry_cache', which), k)
              \/ /\ HasKey(IndexOf(registry_cache', which), k)
                 /\ NormalizeM(Get(IndexOf(registry_cache', which), k).name) = k]_vars

\* David Chang, with the alias 'Lisa Chang', was indexed before Lisa Chang:
\* he was the first to claim 'lisa chang' and 'chang'; he keeps 'chang' and
\* Lisa Chang has 'lisa chang'
C19_Witness ==
  LET lisa == [dir |-> "people", stem |-> LisaChang]
      david == [dir |-> "people", stem |-> DavidChang]
      st == store[registry_cache.vault_path]
  IN  /\ JustBuilt
      /\ {lisa, david} \subseteq Loaded(st, "people")
      /\ Lower(LisaChang) \in ClaimedKeys(st, david)
      /\ IndexedBefore(registry_cache, david, lisa)
      /\ FirstClaimant(registry_cache, st, "people", Lower(LisaChang)) = david
      /\ Get(registry_cache.people, Lower(LisaChang)).name = LisaChang
      /\ Get(registry_cache.people, Lower(wChang)).name = DavidChang

\* the first word of a name
Given(name) == Split(normalize(name))[1]

\* the people index holds the record 'Lisa Chang', without aliases, and no
\* other
OnlyLisaChang ==
  /\ registry_cache.people # <<>>
  /\ \A e \in Values(registry_cache.people) : e.name = LisaChang /\ e.aliases.v = <<>>

\* C20: people who share a surname are not merged by lookup: on an index
\* whose only person record is 'Lisa Chang' without aliases find('David
\* Chang', 'person') does not return her record, and in general a query
\* 'G L' resolves to a record named 'F L', F other than G, only if an alias
\* of that record matches the query.
C20_SharedSurnameNotMerged ==
  RegistryWritten =>
    /\ OnlyLisaChang => ~Find(registry_cache, DavidChang, "person").found
    /\ \A q \in {DavidChang, LisaChang, SarahChen} :
         LET r == Find(registry_cache, q, "person")
         IN  (/\ r.found
              /\ Len(Split(normalize(r.ent.name))) = 2
              /\ LastWord(normalize(r.ent.name)) = LastWord(normalize(q))
              /\ Given(r.ent.name) # Given(q))
             => \E a \in Range(r.ent.aliases.v) : IsStr(a) /\ NormalizeM(a) = NormalizeM(q)

\* names asked for: a full name, a surname, a given name, an alias in lower
\* case, a name of no record
TierNames == {LisaChang, wChang, wLisa, wsally, wZed}

\* normalize(q) is the normalized canonical name or a normalized alias of e
ExactFor(q, e) ==
  \/ NormalizeM(q) = NormalizeM(e.name)
  \/ \E a \in Range(e.aliases.v) : IsStr(a) /\ NormalizeM(a) = NormalizeM(q)

\* C21: a find result has confidence 1.0 only when normalize(query) is the
\* normalized canonical name or a normalized alias of the returned record; a
\* match through a derived variant (first word and last word, or the surname
\* alone) has confidence 0.9, and a fuzzy match has its similarity score.
C21_ConfidenceTellsTier ==
  RegistryWritten =>
    \A q \in TierNames, entity_type \in EntityTypes :
      LET index == IndexOf(registry_cache, _get_index_for_type(entity_type))
          r == Find(registry_cache, q, entity_type)
      IN  r.found =>
            /\ r.ent.confidence = CONF_EXACT => ExactFor(q, r.ent)
            /\ (~HasKey(index, NormalizeM(q)) /\ FirstVariantIn(index, VariantsM(q)) # 0) =>
                 r.ent.confidence = CONF_VARIANT
            /\ (~HasKey(index, NormalizeM(q)) /\ FirstVariantIn(index, VariantsM(q)) = 0) =>
                 \E k \in Keys(index) : /\ r.ent.confidence = SimilarityM(q, k)
                                        /\ Get(index, k).filepath = r.ent.filepath

\* names that are no key and no variant of a key, and thresholds below 1.0
FuzzyNames == {wGretchen, wZed, wDr, wLisa}
Thresholds == {DEFAULT_MIN_CONFIDENCE, CONF_SUBSTRING}

\* the greatest similarity of name to a key of the index, and the first
\* position in insertion order that has it
BestScore(name, index) ==
  LET scores == {SimilarityM(name, index[i].key) : i \in 1..Len(index)}
  IN  CHOOSE s \in scores : \A t \in scores : t <= s
FirstBest(name, index) ==
  LET best == BestScore(name, index)
  IN  CHOOSE i \in 1..Len(index) :
        /\ SimilarityM(name, index[i].key) = best
        /\ \A j \in 1..(i - 1) : SimilarityM(name, index[j].key) # best

\* neither normalize(name) nor a variant of name is a key of the index
TiersMiss(name, index) ==
  ~HasKey(index, NormalizeM(name)) /\ FirstVariantIn(index, VariantsM(name)) = 0

\* C22: when the exact and the variant tier miss and min_confidence < 1.0,
\* find returns a copy of the record of the key with the greatest
\* similarity(name, key), with that score for confidence, if the score is
\* strictly above min_confidence; of keys with the same greatest score the
\* first in insertion order wins; if no score is above min_confidence the
\* result is None.
C22_FuzzyBestFirst ==
  RegistryWritten =>
    \A name \in FuzzyNames, entity_type \in EntityTypes, min_confidence \in Thresholds :
      LET index == IndexOf(registry_cache, _get_index_for_type(entity_type))
          Answers(r, best) ==
            IF best > min_confidence
            THEN r = Some(Copy(index[FirstBest(name, index)].ent, best))
            ELSE ~r.found
      IN  TiersMiss(name, index) =>
            IF index = <<>> THEN ~find(registry_cache, name, entity_type, min_confidence).found
            ELSE Answers(find(registry_cache, name, entity_type, min_confidence),
                         BestScore(name, index))

\* 'Gretchen' is no key; it is part of 'gretchen marks' and contains 'chen',
\* both 0.8; 'chen' of Sarah Chen Jr. was inserted first and wins, and with
\* min_confidence 0.8 the result is None
C22_Witness ==
  LET people == registry_cache.people
  IN  /\ RegistryWritten
      /\ TiersMiss(wGretchen, people)
      /\ BestScore(wGretchen, people) = CONF_SUBSTRING
      /\ \E i, j \in 1..Len(people) :
           /\ i < j
           /\ people[i].ent.name = SarahChenJr /\ people[j].ent.name = GretchenMarks
           /\ SimilarityM(wGretchen, people[i].key) = CONF_SUBSTRING
           /\ SimilarityM(wGretchen, people[j].key) = CONF_SUBSTRING
      /\ Find(registry_cache, wGretchen, "person").found
      /\ Find(registry_cache, wGretchen, "person").ent.name = SarahChenJr
      /\ Find(registry_cache, wGretchen, "person").ent.confidence = CONF_SUBSTRING
      /\ ~find(registry_cache, wGretchen, "person", CONF_SUBSTRING).found

\* the file of the record find resolves name to
FileOf(reg, name, entity_type) ==
  LET m == Find(reg, name, entity_type)
  IN  [dir |-> m.ent.filepath.dir, stem |-> m.ent.filepath.stem]

\* C23: a successful add_alias(name, alias, type) changes the store in one
\* place: the aliases of the resolved record become the persisted list as
\* it was with alias appended; the other metadata field and the text after
\* the block are as they were, and no other record changes.
C23_WritesOnePlace ==
  [][\A name \in NameArgs \cup WriteNames, alias \in AliasArgs \cup WriteAliases,
        entity_type \in TypeArgs :
       (AddAlias(name, alias, entity_type) /\ last'.result) =>
         LET root == registry_cache.vault_path
             f == FileOf(registry_cache, name, entity_type)
         IN  /\ store'[root][f].aliases = YList(Append(AliasesRead(store[root][f]).v, alias))
             /\ store'[root][f].title = store[root][f].title
             /\ store'[root][f].body = store[root][f].body
             /\ \A g \in FileIds \ {f} : store'[root][g] = store[root][g]
             /\ \A other \in Roots \ {root} : store'[other] = store[other]]_vars

\* every key of index is a key of index2 and maps to a record of the same
\* canonical name and location
KeysKept(index, index2) ==
  \A k \in Keys(index) :
    /\ HasKey(index2, k)
    /\ Get(index2, k).name = Get(index, k).name
    /\ Get(index2, k).filepath = Get(index, k).filepath

\* C24: add_alias with one of the three types only adds to the index of
\* that type: its keys after the call include the keys before, every key
\* from before maps to a record of the same canonical name and location, and
\* the indexes of the other two types are as they were.
C24_AddAliasAdditive ==
  [][\A name \in NameArgs \cup WriteNames, alias \in AliasArgs \cup WriteAliases,
        entity_type \in EntityTypes :
       AddAlias(name, alias, entity_type) =>
         LET which == _get_index_for_type(entity_type)
         IN  /\ KeysKept(IndexOf(registry_cache, which), IndexOf(registry_cache', which))
             /\ \A other \in IndexNames \ {which} :
                  IndexOf(registry_cache', other) = IndexOf(registry_cache, other)]_vars


\* C25: the reading methods find (and with it find_person, find_organization
\* and find_concept), exists, get_link, get_all_people and to_json leave the
\* indexes (keys, records, aliases, confidence), the reverse map and the
\* store as they were, at every step and on every tier; and a call that ran
\* interleaved with the other thread's returns what the same call returns
\* when it runs alone on the registry.
Alone(reg, rd) ==
  CASE rd.op \in {"find", "exists", "get_link"} ->
         Answer(reg, rd, find(reg, rd.name, rd.entity_type, rd.min_confidence))
    [] rd.op = "get_all" -> get_all(reg, rd.entity_type)
    [] rd.op = "to_json" -> to_json(reg)

C25_ReadsLeaveAll ==
  /\ [](\A r \in Readers :
          reads[r].pc = "done" => reads[r].out = <<Alone(registry_cache, reads[r])>>)
  /\ [][reads' # reads => registry_cache' = registry_cache /\ store' = store]_vars

\* both threads have returned from calls that overlapped, thread 1 with a
\* fuzzy match and thread 2 with the link of a match of the variant tier
\* (or the other way round for the tiers)
C25_Witness ==
  /\ \A r \in Readers : reads[r].pc = "done" /\ reads[r].overlapped
  /\ reads[1].op = "find" /\ reads[1].out[1].found
  /\ reads[1].out[1].ent.confidence \notin {CONF_EXACT, CONF_VARIANT}
  /\ reads[2].op = "get_link" /\ reads[2].out[1].found
  /\ find(registry_cache, reads[2].name, "none", DEFAULT_MIN_CONFIDENCE).ent.confidence
       = CONF_VARIANT

\* C26: add_alias is a read-modify-write of the file with nothing that
\* holds the file between the read and the write: what a process writes is
\* the alias list it read with its alias appended, whatever the other
\* process has written to the file since.  So when two processes, each with
\* its own registry, interleave add_alias for one record with two aliases,
\* both return True and the file keeps one of the two aliases only.
PersistedAliases(f) == AliasesRead(store["vaultA"][f])

C26_WritesWhatItRead ==
  [][\A w \in Writers :
       writers[w].pc = "read" /\ writers'[w].pc = "done" /\ writers'[w].result
       => AliasesRead(store'["vaultA"][TheFile(writers[w])]) = writers[w].rec.aliases]_vars

\* both calls have returned True for the same record, each with its own
\* alias, and the alias of one of them is not in the file
C26_LostUpdate ==
  /\ \A w \in Writers : writers[w].pc = "done" /\ writers[w].result
  /\ TheFile(writers[1]) = TheFile(writers[2])
  /\ writers[1].alias # writers[2].alias
  /\ \E w \in Writers :
       /\ writers[w].raced
       /\ ~NotIn(writers[w].alias, PersistedAliases(TheFile(writers[w])).v)
       /\ \E o \in Writers \ {w} :
            NotIn(writers[o].alias, PersistedAliases(TheFile(writers[o])).v)

\* C27: scan() returns, for each of people, organizations and concepts, the
\* number of '*.md' files under the type's directory whose name does not
\* start with '.' and that _load_entity loaded (0 for a directory that has
\* none, or is not there); and no key of any index is held by a record whose
\* file name starts with '.'.
Loadable(root, st, dir) ==
  {f \in Present(st, dir) :
     ~Hidden(f) /\ _load_entity(0, Path(root, dir, f.stem), TypeOfDir[dir], st[f]).found}

C27_ScanCounts ==
  /\ [](\A e \in AllEntities(registry_cache) : Head(e.filepath.stem) # ".")
  /\ [][(last'.op = "scan" /\ calls' = calls + 1 /\ ~last'.raised) =>
          \A dir \in DirSet :
            last'.result[dir] =
              Cardinality(Loadable(registry_cache.vault_path,
                                   store[registry_cache.vault_path], dir))]_vars

\* scan() has returned 1 for people, 0 for organizations and 0 for concepts
\* on a vault that holds people/Lisa Chang.md, the well-formed
\* people/.Lisa Chang.md and a concept that cannot be read
C27_Witness ==
  /\ last.op = "scan" /\ ~last.raised
  /\ registry_cache.vault_path = "vaultA"
  /\ store["vaultA"][[dir |-> "people", stem |-> DotLisaChang]].kind = "map"
  /\ store["vaultA"][[dir |-> "concepts", stem |-> wGraph]].kind = "unreadable"
  /\ last.result = [people |-> 1, organizations |-> 0, concepts |-> 0]

\* C28: each type's index holds only records of that type, in every state
\* reached by get_registry, scan and add_alias with any entity_type (one of
\* the three, or None): every record of the people index has type person,
\* every record of the organizations index has type organization and every
\* record of the concepts index has type concept.
C28_IndexHoldsItsType ==
  \A dir \in DirSet :
    \A e \in Values(IndexOf(registry_cache, dir)) : e.entity_type = TypeOfDir[dir]

\* C29: every result of find(name, type, min_confidence) that is not None
\* has a confidence of at least min_confidence, whichever tier gave it; the
\* thresholds tried are 0.7, 0.9 and 1.0.
Minimums == {DEFAULT_MIN_CONFIDENCE, CONF_VARIANT, CONF_EXACT}
ThresholdNames == {LisaChang, LisaMarieChang, wLisa, wsally}

C29_NothingBelowThreshold ==
  RegistryWritten =>
    \A name \in ThresholdNames, entity_type \in {"person", "none"},
       min_confidence \in Minimums :
      LET Kept(match) == match.found => match.ent.confidence >= min_confidence
      IN  Kept(find(registry_cache, name, entity_type, min_confidence))

\* C30: in every state reached by get_registry, scan and add_alias (called
\* with any form of the name that find resolves), all keys of an index that
\* map to the same file hold the same record data: the same name, aliases
\* and confidence; and after an add_alias that returned True the aliases of
\* the records of that file equal the alias list persisted in the file.
SameData(index) ==
  \A i, j \in 1..Len(index) :
    index[i].ent.filepath = index[j].ent.filepath =>
      /\ index[i].ent.name = index[j].ent.name
      /\ index[i].ent.aliases = index[j].ent.aliases
      /\ index[i].ent.confidence = index[j].ent.confidence

AgreesWithFile(reg, st, st2) ==
  \A e \in AllEntities(reg) :
    LET f == [dir |-> e.filepath.dir, stem |-> e.filepath.stem]
    IN  st2[f] # st[f] => e.aliases = AliasesRead(st2[f])

C30_KeysAgree ==
  /\ [](\A dir \in DirSet : SameData(IndexOf(registry_cache, dir)))
  /\ [][(last'.op = "add_alias" /\ calls' = calls + 1 /\ last'.result) =>
          AgreesWithFile(registry_cache', store[registry_cache.vault_path],
                         store'[registry_cache.vault_path])]_vars
====
